---------------------------- MODULE Spec2Model ----------------------------
(***************************************************************************)
(* Model of the request execution layer of the Easy!Appointments client:  *)
(* BaseAPI._make_request with its tenacity retry loop, the error          *)
(* classifier BaseAPI._handle_error_response and the pagination           *)
(* normaliser PaginatedResponse.from_list / from_dict.                    *)
(*                                                                         *)
(* Python values are modelled as follows.                                  *)
(*   Optional[T]   a set with at most one element ({} is None)             *)
(*   str           a TLA+ string                                           *)
(*   JSON value    a record tagged by t: "str", "num", "bool", "list",      *)
(*                 "dict", "null" (null is also Python's None)              *)
(*   exception     a record whose field type is the Python class name      *)
(***************************************************************************)
EXTENDS Integers, Sequences, FiniteSets, TLC

VARIABLES
    server,          \* the responses the remote service may give (environment)
    max_retries,     \* BaseAPI._max_retries
    retry_delay,     \* BaseAPI._retry_delay (seconds)
    return_raw,      \* _make_request's return_raw argument of the current call
    pc,              \* position of the logical call
    attempt_number,  \* tenacity retry_state.attempt_number
    history,         \* what the transport did on every attempt so far
    outcome,         \* tenacity retry_state.outcome: the last attempt's future
    slept,           \* the backoff delays waited so far, in order
    result,          \* what the caller of _make_request receives
    session,         \* BaseAPI._api_key, _base_url, _timeout, _logging_enabled
    http_client,     \* the httpx.AsyncClient shared by the client and its wrappers
    closed_by,       \* who closed http_client first ({} while it is open)
    callers,         \* the calls the application may make (environment)
    call,            \* the arguments of the current _make_request call
    request,         \* method, url and request_kwargs built by _make_request
    sent,            \* the requests handed to the transport, one per attempt
    log,             \* the records written to the "easyappointments" logger
    operation,       \* the wrapper method the application invoked, with its arguments
    returned,        \* what that wrapper method gives back to the application
    raw_payload,     \* argument of PaginatedResponse.from_dict / from_list
    page,            \* the PaginatedResponse built from raw_payload
    inflight         \* the retry state of each of the concurrent _make_request calls

vars == <<server, max_retries, retry_delay, return_raw, pc, attempt_number,
          history, outcome, slept, result, session, http_client, closed_by,
          callers, call, request, sent, log, operation, returned, raw_payload, page,
          inflight>>

sessionVars == <<session, http_client, closed_by, callers>>

callVars == <<call, request, sent, log>>

wrapperVars == <<operation, returned>>

pageVars == <<raw_payload, page>>

-----------------------------------------------------------------------------
(* Bounds of the model.                                                    *)

MaxRetries == 3        \* max_retries ranges over 0..MaxRetries under Spec
MaxBackoffRetries == 6 \* max_retries ranges over 0..MaxBackoffRetries under SpecBackoff
MaxDelay == 2          \* retry_delay ranges over 0..MaxDelay
MaxItems == 3          \* longest array handed to the normaliser

-----------------------------------------------------------------------------
(* Python helpers.                                                         *)

Min(a, b) == IF a <= b THEN a ELSE b

Max(a, b) == IF a >= b THEN a ELSE b

RECURSIVE Pow2(_)
Pow2(n) == IF n <= 0 THEN 1 ELSE 2 * Pow2(n - 1)

Range(s) == {s[i] : i \in 1..Len(s)}

\* s * n for a string s
RECURSIVE Rep(_, _)
Rep(s, n) == IF n <= 0 THEN "" ELSE s \o Rep(s, n - 1)

\* sep.join(parts) for a sequence of strings
RECURSIVE Join(_, _)
Join(sep, parts) ==
    IF Len(parts) = 0 THEN ""
    ELSE IF Len(parts) = 1 THEN parts[1]
    ELSE parts[1] \o sep \o Join(sep, Tail(parts))

\* text[:n]
Prefix(text, n) == SubSeq(text, 1, Min(n, Len(text)))

JStr(s) == [t |-> "str", s |-> s]

JList(items) == [t |-> "list", items |-> items]

\* a dict keeps its keys in insertion order
JDict(keys, vals) == [t |-> "dict", keys |-> keys, vals |-> vals]

JNull == [t |-> "null"]

JNum(n) == [t |-> "num", n |-> n]

JBool(b) == [t |-> "bool", b |-> b]

EmptyDict == JDict(<<>>, <<>>)

\* repr(v): how a value shows inside the str() of a container
RECURSIVE Repr(_)
Repr(v) ==
    CASE v.t = "str" -> "'" \o v.s \o "'"
      [] v.t = "null" -> "None"
      [] v.t = "num" -> ToString(v.n)
      [] v.t = "bool" -> IF v.b THEN "True" ELSE "False"
      [] v.t = "list" ->
            "[" \o Join(", ", [i \in 1..Len(v.items) |-> Repr(v.items[i])]) \o "]"
      [] v.t = "dict" ->
            "{" \o Join(", ", [i \in 1..Len(v.keys) |->
                        "'" \o v.keys[i] \o "': " \o Repr(v.vals[v.keys[i]])]) \o "}"

\* str(v)
Str(v) == IF v.t = "str" THEN v.s ELSE Repr(v)

\* "not data": the values Python takes for false
Falsy(data) ==
    CASE data.t = "null" -> TRUE
      [] data.t = "bool" -> ~data.b
      [] data.t = "num" -> data.n = 0
      [] data.t = "str" -> data.s = ""
      [] data.t = "list" -> Len(data.items) = 0
      [] data.t = "dict" -> Len(data.keys) = 0

-----------------------------------------------------------------------------
(* HTTP responses and exceptions.                                          *)

\* An httpx.Response: text is the raw body, json the set holding the decoded
\* body when the text is valid JSON ({} when response.json() raises
\* json.JSONDecodeError), request_id the X-Request-ID header.
Response(status, text, json, rid) ==
    [status_code |-> status, text |-> text, json |-> json, request_id |-> rid]

IsSuccess(response) == 200 <= response.status_code /\ response.status_code <= 299

\* EasyAppointmentsError.__init__ and the subclasses, which add nothing
Exception(type, status, message, body, rid) ==
    [type |-> type, status_code |-> status, message |-> message,
     response_body |-> body, request_id |-> rid]

\* TransportException with the failure wrapped in the base error class
TransportExceptionWrapped(type) ==
    Exception("EasyAppointmentsError", {}, JStr(type), {}, {})

\* The httpx exceptions raised when no response was received; both derive
\* from httpx.TransportError (ReadTimeout through httpx.TimeoutException).
TransportErrors == {"ConnectError", "ReadTimeout"}

TransportException(type) ==
    Exception(type, {}, JStr(type), {}, {})


-----------------------------------------------------------------------------
(* BaseAPI._handle_error_response                                          *)

\* "field: err1, err2" for one entry of a dict of field errors
FieldErrors(body, field) ==
    LET errors == body.vals[field]
    IN  IF errors.t = "list"
        THEN field \o ": " \o Join(", ", [i \in 1..Len(errors.items) |-> Str(errors.items[i])])
        ELSE field \o ": " \o Str(errors)

\* ErrorMessage with the key error looked up before the key message
ErrorMessageErrorFirst(response) ==
    IF response.json = {}
    THEN IF response.text # ""
         THEN JStr(response.text)
         ELSE JStr("HTTP error " \o ToString(response.status_code))
    ELSE LET response_body == CHOOSE b \in response.json : TRUE
         IN  IF response_body.t = "list" /\ Len(response_body.items) > 0
             THEN JStr(Join("; ", [i \in 1..Len(response_body.items) |->
                                        Str(response_body.items[i])]))
             ELSE IF response_body.t = "dict"
             THEN IF "error" \in Range(response_body.keys)
                  THEN response_body.vals["error"]
                  ELSE IF "message" \in Range(response_body.keys)
                  THEN response_body.vals["message"]
                  ELSE IF \E k \in Range(response_body.keys) : response_body.vals[k].t = "list"
                  THEN JStr(Join("; ", [i \in 1..Len(response_body.keys) |->
                                             FieldErrors(response_body, response_body.keys[i])]))
                  ELSE JStr(Str(response_body))
             ELSE JStr("Unknown error")

\* ErrorMessage with every body that matches no rule turned into its str()
ErrorMessageStringifiesRest(response) ==
    IF response.json = {}
    THEN IF response.text # ""
         THEN JStr(response.text)
         ELSE JStr("HTTP error " \o ToString(response.status_code))
    ELSE LET response_body == CHOOSE b \in response.json : TRUE
         IN  IF response_body.t = "list" /\ Len(response_body.items) > 0
             THEN JStr(Join("; ", [i \in 1..Len(response_body.items) |->
                                        Str(response_body.items[i])]))
             ELSE IF response_body.t = "dict"
             THEN IF "message" \in Range(response_body.keys)
                  THEN response_body.vals["message"]
                  ELSE IF "error" \in Range(response_body.keys)
                  THEN response_body.vals["error"]
                  ELSE IF \E k \in Range(response_body.keys) : response_body.vals[k].t = "list"
                  THEN JStr(Join("; ", [i \in 1..Len(response_body.keys) |->
                                             FieldErrors(response_body, response_body.keys[i])]))
                  ELSE JStr(Str(response_body))
             ELSE JStr(Str(response_body))

\* error_message; a value taken from the body is kept as it is
ErrorMessage(response) ==
    IF response.json = {}
    THEN IF response.text # ""
         THEN JStr(response.text)
         ELSE JStr("HTTP error " \o ToString(response.status_code))
    ELSE LET response_body == CHOOSE b \in response.json : TRUE
         IN  IF response_body.t = "list" /\ Len(response_body.items) > 0
             THEN JStr(Join("; ", [i \in 1..Len(response_body.items) |->
                                        Str(response_body.items[i])]))
             ELSE IF response_body.t = "dict"
             THEN IF "message" \in Range(response_body.keys)
                  THEN response_body.vals["message"]
                  ELSE IF "error" \in Range(response_body.keys)
                  THEN response_body.vals["error"]
                  ELSE IF \E k \in Range(response_body.keys) : response_body.vals[k].t = "list"
                  THEN JStr(Join("; ", [i \in 1..Len(response_body.keys) |->
                                             FieldErrors(response_body, response_body.keys[i])]))
                  ELSE JStr(Str(response_body))
             ELSE JStr("Unknown error")

\* ErrorClass with the upper limit of the server errors off by one
ErrorClassOffByOne(status_code) ==
    IF status_code = 401 THEN "AuthenticationError"
    ELSE IF status_code = 404 THEN "ResourceNotFoundError"
    ELSE IF status_code = 400 THEN "ValidationError"
    ELSE IF status_code = 429 THEN "RateLimitError"
    ELSE IF 500 <= status_code /\ status_code <= 600 THEN "ServerError"
    ELSE "EasyAppointmentsError"

\* the exception class chosen from the status code
ErrorClass(status_code) ==
    IF status_code = 401 THEN "AuthenticationError"
    ELSE IF status_code = 404 THEN "ResourceNotFoundError"
    ELSE IF status_code = 400 THEN "ValidationError"
    ELSE IF status_code = 429 THEN "RateLimitError"
    ELSE IF 500 <= status_code /\ status_code < 600 THEN "ServerError"
    ELSE "EasyAppointmentsError"

\* the exception _handle_error_response raises for a response
HandleErrorResponse(response) ==
    Exception(ErrorClass(response.status_code), {response.status_code},
              ErrorMessage(response), response.json, response.request_id)

-----------------------------------------------------------------------------
(* BaseAPI._make_request: one attempt                                      *)

ExcerptLength == 100

Returned(value) == [state |-> "result", value |-> value]

Raised(exception) == [state |-> "exception", exception |-> exception]

NoOutcome == [state |-> "none"]

\* what the shared transport does on one attempt
TransportFailure(type) == [kind |-> "error", type |-> type]

Received(response) == [kind |-> "response", response |-> response]

\* InvalidJsonError raised as a server error
InvalidJsonErrorAsServerError(response) ==
    Exception("ServerError", {response.status_code},
              JStr("Invalid JSON response: " \o Prefix(response.text, ExcerptLength) \o "..."),
              {}, {})

\* the exception raised for a success status whose body is not JSON
InvalidJsonError(response) ==
    Exception("EasyAppointmentsError", {response.status_code},
              JStr("Invalid JSON response: " \o Prefix(response.text, ExcerptLength) \o "..."),
              {}, {})

\* ParseBody without the check for 204
ParseBodyWithout204(response) ==
    IF response.json # {} THEN Returned(CHOOSE b \in response.json : TRUE)
    ELSE Raised(InvalidJsonError(response))

\* the body of a success response as _execute_request returns it
ParseBody(response) ==
    IF response.status_code = 204 THEN Returned(EmptyDict)
    ELSE IF response.json # {} THEN Returned(CHOOSE b \in response.json : TRUE)
    ELSE Raised(InvalidJsonError(response))

-----------------------------------------------------------------------------
(* The session, the shared transport and the request of one call           *)

\* str.rstrip('/')
RECURSIVE RStrip(_)
RStrip(text) ==
    IF Len(text) > 0 /\ SubSeq(text, Len(text), Len(text)) = "/"
    THEN RStrip(SubSeq(text, 1, Len(text) - 1))
    ELSE text

\* The configuration kept by BaseAPI.__init__; EasyAppointmentsClient hands
\* the same arguments to each of its wrappers.
Session(api_key, base_url, timeout, logging_enabled) ==
    [api_key |-> api_key, base_url |-> RStrip(base_url), timeout |-> timeout,
     logging_enabled |-> logging_enabled]

\* httpx.AsyncClient(timeout=timeout, follow_redirects=True), as far as the
\* calls depend on it
AsyncClient(timeout) == [timeout |-> timeout, is_closed |-> FALSE]

\* http_client or httpx.AsyncClient(timeout=timeout, follow_redirects=True)
HttpClient(supplied, timeout) ==
    IF supplied # {} THEN CHOOSE c \in supplied : TRUE ELSE AsyncClient(timeout)

\* The resource wrappers of one EasyAppointmentsClient
Wrappers == {"admins", "providers", "customers"}

\* The arguments of _make_request; params, data, additional_headers and
\* timeout are Optional.
Call(wrapper, method, path, params, data, additional_headers, timeout) ==
    [wrapper |-> wrapper, method |-> method, path |-> path, params |-> params,
     data |-> data, additional_headers |-> additional_headers, timeout |-> timeout]

\* GetHeaders with the standard headers written after the caller's headers
GetHeadersStandardLast(additional_headers) ==
    LET headers == ("Authorization" :> "Bearer " \o session.api_key)
                     @@ ("Content-Type" :> "application/json")
                     @@ ("Accept" :> "application/json")
    IN  IF additional_headers # {} /\ DOMAIN (CHOOSE h \in additional_headers : TRUE) # {}
        THEN headers @@ (CHOOSE h \in additional_headers : TRUE)
        ELSE headers

\* _get_headers: a dict, as the function from header names to values;
\* dict.update lets the caller's value replace the one already there.
GetHeaders(additional_headers) ==
    LET headers == ("Authorization" :> "Bearer " \o session.api_key)
                     @@ ("Content-Type" :> "application/json")
                     @@ ("Accept" :> "application/json")
    IN  IF additional_headers # {} /\ DOMAIN (CHOOSE h \in additional_headers : TRUE) # {}
        THEN (CHOOSE h \in additional_headers : TRUE) @@ headers
        ELSE headers

\* text[i], "" past the end
Char(text, i) == IF i >= 1 /\ i <= Len(text) THEN SubSeq(text, i, i) ELSE ""

\* text[i:]
From(text, i) == IF i > Len(text) THEN "" ELSE SubSeq(text, i, Len(text))

\* text.find(sub) + 1 for a sub of one or two characters: the first
\* position where sub starts, 0 when there is none
Find(text, sub) ==
    LET found == {i \in 1..Len(text) : i + Len(sub) - 1 <= Len(text)
                                       /\ SubSeq(text, i, i + Len(sub) - 1) = sub}
    IN  IF found = {} THEN 0 ELSE CHOOSE i \in found : \A j \in found : i <= j

\* text.split('/')
RECURSIVE Split(_)
Split(text) ==
    LET i == Find(text, "/")
    IN  IF i = 0 THEN <<text>>
        ELSE <<SubSeq(text, 1, i - 1)>> \o Split(From(text, i + 1))

\* urllib.parse.scheme_chars
SchemeChars ==
    {"a", "b", "c", "d", "e", "f", "g", "h", "i", "j", "k", "l", "m", "n", "o", "p", "q",
     "r", "s", "t", "u", "v", "w", "x", "y", "z", "A", "B", "C", "D", "E", "F", "G", "H",
     "I", "J", "K", "L", "M", "N", "O", "P", "Q", "R", "S", "T", "U", "V", "W", "X", "Y",
     "Z", "0", "1", "2", "3", "4", "5", "6", "7", "8", "9", "+", "-", "."}

Digits == {"0", "1", "2", "3", "4", "5", "6", "7", "8", "9"}

\* urllib.parse.urlparse(url, scheme) for a URL of lower-case scheme
\* without query, parameters or fragment: scheme, netloc and path
UrlParse(url, default_scheme) ==
    LET colon == Find(url, ":")
        has_scheme == /\ colon > 1
                      /\ Char(url, 1) \in SchemeChars \ (Digits \cup {"+", "-", "."})
                      /\ \A i \in 1..(colon - 1) : Char(url, i) \in SchemeChars
        scheme == IF has_scheme THEN SubSeq(url, 1, colon - 1) ELSE default_scheme
        rest == IF has_scheme THEN From(url, colon + 1) ELSE url
        slash == Find(From(rest, 3), "/")
    IN  IF SubSeq(rest, 1, Min(2, Len(rest))) = "//"
        THEN [scheme |-> scheme,
              netloc |-> IF slash = 0 THEN From(rest, 3) ELSE SubSeq(rest, 3, slash + 1),
              path |-> IF slash = 0 THEN "" ELSE From(rest, slash + 2)]
        ELSE [scheme |-> scheme, netloc |-> "", path |-> rest]

\* urllib.parse.urlunparse for an http or https URL
UrlUnparse(scheme, netloc, path) ==
    scheme \o "://" \o netloc
           \o (IF path # "" /\ Char(path, 1) # "/" THEN "/" \o path ELSE path)

\* The loop of urljoin that resolves the segments "." and ".."
RECURSIVE ResolvedPath(_, _)
ResolvedPath(segments, resolved_path) ==
    IF segments = <<>> THEN resolved_path
    ELSE IF Head(segments) = ".."
    THEN ResolvedPath(Tail(segments),
                      IF resolved_path = <<>> THEN <<>>
                      ELSE SubSeq(resolved_path, 1, Len(resolved_path) - 1))
    ELSE IF Head(segments) = "."
    THEN ResolvedPath(Tail(segments), resolved_path)
    ELSE ResolvedPath(Tail(segments), Append(resolved_path, Head(segments)))

\* segments[1:-1] = filter(None, segments[1:-1])
FilterInner(segments) ==
    IF Len(segments) < 2 THEN segments
    ELSE <<Head(segments)>>
           \o SelectSeq(SubSeq(segments, 2, Len(segments) - 1), LAMBDA seg : seg # "")
           \o <<segments[Len(segments)]>>

\* urllib.parse.urljoin(base, url) for an http or https base
UrlJoin(base, url) ==
    IF base = "" THEN url
    ELSE IF url = "" THEN base
    ELSE LET b == UrlParse(base, "")
             u == UrlParse(url, b.scheme)
             base_parts == LET parts == Split(b.path)
                           IN  IF parts[Len(parts)] # ""
                               THEN SubSeq(parts, 1, Len(parts) - 1) ELSE parts
             segments == IF Char(u.path, 1) = "/" THEN Split(u.path)
                         ELSE FilterInner(base_parts \o Split(u.path))
             resolved == ResolvedPath(segments, <<>>)
                           \o (IF segments[Len(segments)] \in {".", ".."} THEN <<"">> ELSE <<>>)
             joined == Join("/", resolved)
         IN  IF u.scheme # b.scheme \/ u.scheme \notin {"http", "https"} THEN url
             ELSE IF u.netloc # "" THEN UrlUnparse(u.scheme, u.netloc, u.path)
             ELSE IF u.path = "" THEN UrlUnparse(u.scheme, b.netloc, b.path)
             ELSE UrlUnparse(u.scheme, b.netloc, IF joined = "" THEN "/" ELSE joined)

\* Url as the base URL, a slash and the path without its leading slash
UrlConcatenated(path) ==
    LET relative == IF Len(path) > 0 /\ SubSeq(path, 1, 1) = "/"
                    THEN SubSeq(path, 2, Len(path)) ELSE path
    IN  session.base_url \o "/" \o relative

\* urljoin(self._base_url + '/', path) after one leading '/' of the path is
\* removed
Url(path) ==
    LET relative == IF Len(path) > 0 /\ SubSeq(path, 1, 1) = "/"
                    THEN SubSeq(path, 2, Len(path)) ELSE path
    IN  UrlJoin(session.base_url \o "/", relative)

SensitiveFields == {"api_key", "key", "secret", "password", "token"}

MaskString == JStr("*****")

\* MaskSensitiveData without the field token
MaskSensitiveDataWithoutToken(data) ==
    IF Falsy(data) THEN data
    ELSE JDict(data.keys,
               [k \in DOMAIN data.vals |->
                   IF k \in SensitiveFields \ {"token"} /\ ~Falsy(data.vals[k])
                   THEN MaskString ELSE data.vals[k]])

\* _mask_sensitive_data: a shallow copy with the sensitive top-level
\* fields that hold a true value replaced
MaskSensitiveData(data) ==
    IF Falsy(data) THEN data
    ELSE JDict(data.keys,
               [k \in DOMAIN data.vals |->
                   IF k \in SensitiveFields /\ ~Falsy(data.vals[k])
                   THEN MaskString ELSE data.vals[k]])

\* BuildRequest with the masked copy of the body as the json argument
BuildRequestMasked(c) ==
    [method |-> c.method, url |-> Url(c.path), headers |-> GetHeaders(c.additional_headers),
     params |-> c.params,
     json |-> IF c.data = {} THEN {} ELSE {MaskSensitiveData(CHOOSE d \in c.data : TRUE)},
     timeout |-> c.timeout]

\* method, url and request_kwargs: json and timeout are present only when
\* the caller gave them.
BuildRequest(c) ==
    [method |-> c.method, url |-> Url(c.path), headers |-> GetHeaders(c.additional_headers),
     params |-> c.params, json |-> c.data, timeout |-> c.timeout]

\* What httpx sends for self._http_client.request(method, url, **request_kwargs):
\* without a timeout argument the client's own timeout applies.
SentRequest(req) ==
    [req EXCEPT !.timeout = IF req.timeout # {} THEN CHOOSE t \in req.timeout : TRUE
                            ELSE http_client.timeout]

\* The record logged by _make_request before the first attempt
RequestLog(c) ==
    IF c.method = "GET"
    THEN [msg |-> "Making request", method |-> c.method, url |-> Url(c.path),
          params |-> c.params]
    ELSE [msg |-> "Making request", method |-> c.method, url |-> Url(c.path),
          params |-> c.params,
          data |-> IF c.data # {} /\ ~Falsy(CHOOSE d \in c.data : TRUE)
                   THEN {MaskSensitiveData(CHOOSE d \in c.data : TRUE)} ELSE {}]

\* The exception classes of exceptions.py
EasyAppointmentsErrors ==
    {"EasyAppointmentsError", "AuthenticationError", "ResourceNotFoundError",
     "ValidationError", "RateLimitError", "ServerError"}

\* EasyAppointmentsError.__str__; an httpx error prints its message
StrError(e) ==
    IF e.type \in EasyAppointmentsErrors
    THEN Join(" | ", <<e.message.s>>
                     \o (IF e.status_code # {}
                         THEN <<"Status code: " \o ToString(CHOOSE c \in e.status_code : TRUE)>>
                         ELSE <<>>)
                     \o (IF e.request_id # {}
                         THEN <<"Request ID: " \o (CHOOSE r \in e.request_id : TRUE)>>
                         ELSE <<>>))
    ELSE e.message.s

\* What the transport does when the client was closed before the request
ClientClosed == [kind |-> "closed"]

\* RuntimeError raised by httpx.AsyncClient for a request on a closed client
ClientClosedError ==
    Exception("RuntimeError", {},
              JStr("Cannot send a request, as the client has been closed."), {}, {})

\* TypeError raised by " | ".join(parts) in EasyAppointmentsError.__str__
\* when the message is not a string
JoinTypeError ==
    Exception("TypeError", {}, JStr("sequence item 0: expected str instance"), {}, {})

\* SendAndParse with a closed client reported as a connection failure
SendAndParseClosedAsTransport(event, raw) ==
    IF event.kind = "closed" THEN Raised(TransportException("ConnectError"))
    ELSE IF event.kind = "error" THEN Raised(TransportException(event.type))
    ELSE IF ~IsSuccess(event.response) THEN Raised(HandleErrorResponse(event.response))
    ELSE IF raw THEN Returned([t |-> "response", response |-> event.response])
    ELSE ParseBody(event.response)

\* The future of one attempt before the except clause of _execute_request
SendAndParse(event, raw) ==
    IF event.kind = "closed" THEN Raised(ClientClosedError)
    ELSE IF event.kind = "error" THEN Raised(TransportException(event.type))
    ELSE IF ~IsSuccess(event.response) THEN Raised(HandleErrorResponse(event.response))
    ELSE IF raw THEN Returned([t |-> "response", response |-> event.response])
    ELSE ParseBody(event.response)

\* The except clause of _execute_request formats str(e) for the log record
\* of an EasyAppointmentsError or httpx.HTTPError; an exception raised by
\* str(e) replaces the one being handled.
Handled(fut) ==
    /\ session.logging_enabled
    /\ fut.state = "exception"
    /\ fut.exception.type \in EasyAppointmentsErrors \cup TransportErrors

\* _execute_request: the future of one attempt, given what the transport did
ExecuteRequest(event, raw) ==
    LET fut == SendAndParse(event, raw)
    IN  IF Handled(fut) /\ fut.exception.message.t # "str"
        THEN Raised(JoinTypeError)
        ELSE fut

\* The records _execute_request logs during one attempt
AttemptLogOf(url, event, raw) ==
    LET fut == SendAndParse(event, raw)
    IN  IF ~session.logging_enabled THEN <<>>
        ELSE (IF event.kind = "response"
              THEN <<[msg |-> "Received response", url |-> url,
                      status |-> event.response.status_code]>>
              ELSE <<>>)
          \o (IF event.kind = "response" /\ IsSuccess(event.response) /\ fut.state = "exception"
              THEN <<[msg |-> "Invalid JSON response", url |-> url]>>
              ELSE <<>>)
          \o (IF Handled(fut) /\ fut.exception.message.t = "str"
              THEN <<[msg |-> "Error making request", url |-> url,
                      error |-> StrError(fut.exception)]>>
              ELSE <<>>)

\* The records logged during one attempt of the current call
AttemptLog(event, raw) == AttemptLogOf(request.url, event, raw)

-----------------------------------------------------------------------------
(* The tenacity retry loop configured by the decorator of _execute_request *)
(*                                                                         *)
(* tenacity calls the function, and after each attempt: returns its value  *)
(* or raises its exception when the retry predicate is false; otherwise    *)
(* raises when the stop predicate is true (with reraise=True the attempt's  *)
(* own exception, so RetryError never reaches the except clause that        *)
(* follows the call); otherwise sleeps wait(attempt_number) seconds and     *)
(* calls the function again.  wait_exponential computes                     *)
(* max(max(0, min), min(multiplier * 2 ** (attempt_number - 1), max)).      *)

\* RetryIfExceptionType retrying on every exception
RetryIfAnyException(fut) == fut.state = "exception"

\* retry_if_exception_type((RateLimitError, ServerError,
\*                          httpx.TimeoutException, httpx.TransportError))
RetryIfExceptionType(fut) ==
    /\ fut.state = "exception"
    /\ fut.exception.type \in {"RateLimitError", "ServerError"} \cup TransportErrors

\* StopAfterAttempt stopping only at attempt max_retries itself
StopAtAttempt(n) == n = max_retries

\* StopAfterAttempt counting retries instead of attempts
StopAfterRetries(n) == n > max_retries

\* stop_after_attempt(self._max_retries)
StopAfterAttempt(n) == n >= max_retries

\* WaitExponential with the exponent starting at 1 instead of 0
WaitExponentialFromTwo(n) ==
    LET exp == Pow2(n)
        computed == retry_delay * exp
    IN  Max(Max(0, retry_delay), Min(computed, retry_delay * 10))

\* wait_exponential(multiplier=d, min=d, max=d * 10) after attempt n
WaitExponential(n) ==
    LET exp == Pow2(n - 1)
        computed == retry_delay * exp
    IN  Max(Max(0, retry_delay), Min(computed, retry_delay * 10))

\* Reraise with reraise=False: tenacity's RetryError reaches the caller
ReraiseRetryError(fut) ==
    [tag |-> "error", error |-> Exception("RetryError", {}, JStr("RetryError"), {}, {})]

\* reraise=True: the last attempt's exception itself reaches the caller
Reraise(fut) == [tag |-> "error", error |-> fut.exception]

\* FutureResult with the value of the attempt not passed on
FutureResultWithoutValue(fut) ==
    IF fut.state = "exception"
    THEN [tag |-> "error", error |-> fut.exception]
    ELSE [tag |-> "ok", value |-> JNull]

\* fut.result(): the value of a finished attempt, or its exception
FutureResult(fut) ==
    IF fut.state = "exception"
    THEN [tag |-> "error", error |-> fut.exception]
    ELSE [tag |-> "ok", value |-> fut.value]

Pending == [tag |-> "pending"]

NoCall == [wrapper |-> "none"]

NoRequest == [method |-> "none"]

NoOperation == [name |-> "none"]

NoPage == [tag |-> "none"]

\* A logical call starts: _make_request is entered and the decorated
\* _execute_request is called, which begins attempt 1.
MakeRequest ==
    /\ pc = "idle"
    /\ \E raw \in IF operation = NoOperation THEN BOOLEAN ELSE {FALSE} : return_raw' = raw
    /\ \E c \in callers :
         /\ call' = c
         /\ request' = BuildRequest(c)
         /\ log' = IF session.logging_enabled THEN Append(log, RequestLog(c)) ELSE log
    /\ attempt_number' = 1
    /\ pc' = "attempt"
    /\ UNCHANGED <<server, max_retries, retry_delay, history, outcome, slept, result, sent>>
    /\ UNCHANGED <<sessionVars, pageVars>>
    /\ UNCHANGED wrapperVars
    /\ UNCHANGED inflight

\* Attempt with the backoff delay waited before the last error is reraised
AttemptWaitingBeforeReraise ==
    /\ pc = "attempt"
    /\ \E event \in IF http_client.is_closed THEN {ClientClosed} ELSE server :
         LET fut == ExecuteRequest(event, return_raw)
         IN  /\ history' = Append(history, event)
             /\ sent' = IF http_client.is_closed THEN sent
                        ELSE Append(sent, SentRequest(request))
             /\ log' = log \o AttemptLog(event, return_raw)
             /\ outcome' = fut
             /\ IF ~RetryIfExceptionType(fut)
                THEN /\ result' = FutureResult(fut)
                     /\ slept' = slept
                     /\ pc' = "done"
                ELSE IF StopAfterAttempt(attempt_number)
                THEN /\ result' = Reraise(fut)
                     /\ slept' = Append(slept, WaitExponential(attempt_number))
                     /\ pc' = "done"
                ELSE /\ result' = result
                     /\ slept' = slept
                     /\ pc' = "sleep"
    /\ UNCHANGED <<server, max_retries, retry_delay, return_raw, attempt_number>>
    /\ UNCHANGED <<sessionVars, call, request, pageVars>>
    /\ UNCHANGED wrapperVars
    /\ UNCHANGED inflight

\* One attempt: the request is sent, the response or failure is turned
\* into the attempt's outcome, and tenacity decides what follows.
Attempt ==
    /\ pc = "attempt"
    /\ \E event \in IF http_client.is_closed THEN {ClientClosed} ELSE server :
         LET fut == ExecuteRequest(event, return_raw)
         IN  /\ history' = Append(history, event)
             /\ sent' = IF http_client.is_closed THEN sent
                        ELSE Append(sent, SentRequest(request))
             /\ log' = log \o AttemptLog(event, return_raw)
             /\ outcome' = fut
             /\ IF ~RetryIfExceptionType(fut)
                THEN /\ result' = FutureResult(fut)
                     /\ pc' = "done"
                ELSE IF StopAfterAttempt(attempt_number)
                THEN /\ result' = Reraise(fut)
                     /\ pc' = "done"
                ELSE /\ result' = result
                     /\ pc' = "sleep"
    /\ UNCHANGED <<server, max_retries, retry_delay, return_raw, attempt_number, slept>>
    /\ UNCHANGED <<sessionVars, call, request, pageVars>>
    /\ UNCHANGED wrapperVars
    /\ UNCHANGED inflight

\* The backoff wait between two attempts ends and the next attempt begins.
Sleep ==
    /\ pc = "sleep"
    /\ slept' = Append(slept, WaitExponential(attempt_number))
    /\ attempt_number' = attempt_number + 1
    /\ pc' = "attempt"
    /\ UNCHANGED <<server, max_retries, retry_delay, return_raw, history, outcome, result>>
    /\ UNCHANGED <<sessionVars, callVars, pageVars>>
    /\ UNCHANGED wrapperVars
    /\ UNCHANGED inflight

Next == MakeRequest \/ Attempt \/ Sleep

\* EasyAppointmentsClient.close, also run by its __aexit__: aclose() on the
\* transport; closing a closed transport changes nothing.
CloseClient ==
    /\ http_client' = [http_client EXCEPT !.is_closed = TRUE]
    /\ closed_by' = IF http_client.is_closed THEN closed_by ELSE {"client"}
    /\ UNCHANGED <<server, max_retries, retry_delay, return_raw, pc, attempt_number,
                   history, outcome, slept, result, session, callers>>
    /\ UNCHANGED <<callVars, pageVars>>
    /\ UNCHANGED wrapperVars
    /\ UNCHANGED inflight

\* BaseAPI.close of one wrapper, also run by its __aexit__: aclose() on the
\* transport that the wrapper holds, which is the client's.
CloseWrapper(wrapper) ==
    /\ http_client' = [http_client EXCEPT !.is_closed = TRUE]
    /\ closed_by' = IF http_client.is_closed THEN closed_by ELSE {wrapper}
    /\ UNCHANGED <<server, max_retries, retry_delay, return_raw, pc, attempt_number,
                   history, outcome, slept, result, session, callers>>
    /\ UNCHANGED <<callVars, pageVars>>
    /\ UNCHANGED wrapperVars
    /\ UNCHANGED inflight

NextSession == Next \/ CloseClient \/ \E wrapper \in Wrappers : CloseWrapper(wrapper)

-----------------------------------------------------------------------------
(* The remote service                                                      *)

Payload == JDict(<<"id", "firstName">>, [id |-> JStr("7"), firstName |-> JStr("Ann")])

MessageBody == JDict(<<"message">>, [message |-> JStr("try again")])

LongText == Rep("x", ExcerptLength) \o "yz"

Responses ==
    { Response(200, "{id: 7, firstName: Ann}", {Payload}, {"req-1"}),
      Response(200, "[Ann]", {JList(<<JStr("Ann")>>)}, {}),
      Response(200, LongText, {}, {}),
      Response(200, "", {}, {"req-2"}),
      Response(201, "{id: 7, firstName: Ann}", {Payload}, {}),
      Response(204, "", {}, {}),
      Response(204, "<html>", {}, {}),
      Response(204, "[Ann]", {JList(<<JStr("Ann")>>)}, {}),
      Response(302, "", {}, {}),
      Response(400, "{email: [invalid, taken]}",
               {JDict(<<"email">>, [email |-> JList(<<JStr("invalid"), JStr("taken")>>)])}, {}),
      Response(401, "{error: unauthorized}",
               {JDict(<<"error">>, [error |-> JStr("unauthorized")])}, {"req-3"}),
      Response(403, "Forbidden", {}, {}),
      Response(404, "{message: try again}", {MessageBody}, {}),
      Response(429, "{message: try again}", {MessageBody}, {"req-4"}),
      Response(429, "slow down", {}, {}),
      Response(500, "", {}, {}),
      Response(503, "{message: try again}", {MessageBody}, {"req-5"}),
      Response(599, "[a, b]", {JList(<<JStr("a"), JStr("b")>>)}, {}) }

Events ==
    {Received(r) : r \in Responses} \cup {TransportFailure(e) : e \in TransportErrors}

\* The state after the client is constructed with the given configuration,
\* talking to a service that can answer with the given events.
InitShared(events, retries, delays, sessions, transports, calls) ==
    /\ server = events
    /\ max_retries \in retries
    /\ retry_delay \in delays
    /\ return_raw = FALSE
    /\ pc = "idle"
    /\ attempt_number = 0
    /\ history = <<>>
    /\ outcome = NoOutcome
    /\ slept = <<>>
    /\ result = Pending
    /\ session \in sessions
    /\ \E supplied \in transports : http_client = HttpClient(supplied, session.timeout)
    /\ closed_by = {}
    /\ callers = calls
    /\ call = NoCall
    /\ request = NoRequest
    /\ sent = <<>>
    /\ log = <<>>
    /\ raw_payload = JNull
    /\ page = NoPage

\* The application makes its calls one after the other.
InitExecutor(events, retries, delays, sessions, transports, calls) ==
    /\ InitShared(events, retries, delays, sessions, transports, calls)
    /\ inflight = <<>>

\* The client is used through _make_request directly.
InitSession(events, retries, delays, sessions, transports, calls) ==
    /\ InitExecutor(events, retries, delays, sessions, transports, calls)
    /\ operation = NoOperation
    /\ returned = Pending

\* The constructor's defaults
DefaultSession == Session("secret-key", "http://localhost/index.php/api/v1", 30, TRUE)

\* list_customers without filters
DefaultCall == Call("customers", "GET", "/customers", {EmptyDict}, {}, {}, {})

\* A client with the default session that builds its own transport, used
\* for one call.
InitWith(events, retries, delays) ==
    InitSession(events, retries, delays, {DefaultSession}, {{}}, {DefaultCall})

Init == InitWith(Events, 0..MaxRetries, 0..MaxDelay)

Spec == Init /\ [][Next]_vars

\* The same client when every awaited step completes: an attempt that was
\* started returns a response or fails (the transport's timeout bounds it),
\* and asyncio.sleep returns after the backoff delay.
SpecLive == Init /\ [][Next]_vars /\ WF_vars(Attempt) /\ WF_vars(Sleep)

-----------------------------------------------------------------------------
(* The same client against narrower services                               *)

MaxStatus == 600       \* status codes range over 100..MaxStatus under SpecClassify

\* Every status code, with a JSON body, a text body and an empty body, with
\* and without an X-Request-ID header: the service always gives one answer.
InitClassify ==
    \E status \in 100..MaxStatus, rid \in {{}, {"req-9"}} :
      \E body \in {<<"{message: try again}", {MessageBody}>>, <<"Forbidden", {}>>, <<"", {}>>} :
         InitWith({Received(Response(status, body[1], body[2], rid))}, {2}, {1})

SpecClassify == InitClassify /\ [][Next]_vars

\* The bodies an error response may carry: text and decoded JSON.
ErrorBodies ==
    { <<"[a, b]", {JList(<<JStr("a"), JStr("b")>>)}>>,
      <<"[1, {code: x}]", {JList(<<JNum(1), JDict(<<"code">>, [code |-> JStr("x")])>>)}>>,
      <<"{error: denied, message: try again}",
        {JDict(<<"error", "message">>, [error |-> JStr("denied"), message |-> JStr("try again")])}>>,
      <<"{error: denied, email: [invalid]}",
        {JDict(<<"error", "email">>, [error |-> JStr("denied"), email |-> JList(<<JStr("invalid")>>)])}>>,
      <<"{message: [a], email: [invalid]}",
        {JDict(<<"message", "email">>, [message |-> JList(<<JStr("a")>>),
                                         email |-> JList(<<JStr("invalid")>>)])}>>,
      <<"{email: [invalid, taken], code: E1, phone: []}",
        {JDict(<<"email", "code", "phone">>,
               [email |-> JList(<<JStr("invalid"), JStr("taken")>>), code |-> JStr("E1"),
                phone |-> JList(<<>>)])}>>,
      <<"{detail: gone, code: 7}",
        {JDict(<<"detail", "code">>, [detail |-> JStr("gone"), code |-> JNum(7)])}>>,
      <<"{}", {EmptyDict}>>,
      <<"[]", {JList(<<>>)}>>,
      <<"'oops'", {JStr("oops")}>>,
      <<"null", {JNull}>>,
      <<"7", {JNum(7)}>>,
      <<"false", {JBool(FALSE)}>>,
      <<"Forbidden", {}>>,
      <<"", {}>> }

\* A service that rejects every request, always in the same way; the
\* client logs or not.
InitMessage ==
    \E status \in {400, 404, 422, 503}, rid \in {{}, {"req-9"}}, body \in ErrorBodies :
        InitSession({Received(Response(status, body[1], body[2], rid))}, {2}, {1},
                    {Session("secret-key", "http://localhost/index.php/api/v1", 30, logging) :
                        logging \in BOOLEAN},
                    {{}}, {DefaultCall})

SpecMessage == InitMessage /\ [][Next]_vars

\* The body of a create call: sensitive fields with and without a value,
\* other fields, and a nested object.
CustomerData ==
    JDict(<<"name", "password", "token", "key", "secret", "api_key", "profile">>,
          [name |-> JStr("Ann"), password |-> JStr("hunter2"), token |-> JStr("t-1"),
           key |-> JStr(""), secret |-> JNull, api_key |-> JStr("abc"),
           profile |-> JDict(<<"password">>, [password |-> JStr("inner")])])

PageParams == JDict(<<"page", "length">>, [page |-> JNum(1), length |-> JNum(10)])

\* Calls of the three wrappers through _get, _post, _put and _delete
SessionCalls ==
    { Call("customers", "GET", "/customers", {PageParams}, {}, {}, {}),
      Call("customers", "POST", "/customers", {}, {CustomerData}, {}, {}),
      Call("providers", "PUT", "providers/7", {}, {EmptyDict},
           {("X-Trace" :> "t1")}, {10}),
      Call("providers", "GET", "/providers", {}, {},
           {("Authorization" :> "Basic abc") @@ ("Accept" :> "text/plain")}, {10}),
      Call("admins", "DELETE", "/admins/7", {}, {},
           {("Authorization" :> "Basic abc") @@ ("X-Trace" :> "t2")}, {}),
      Call("admins", "POST", "/admins", {},
           {JDict(<<"name">>, [name |-> JStr("Bob")])}, {<<>>}, {}) }

SessionEvents ==
    { Received(Response(200, "{id: 7, firstName: Ann}", {Payload}, {"req-1"})),
      Received(Response(503, "{message: try again}", {MessageBody}, {})),
      TransportFailure("ConnectError") }

\* An application that uses one client, through any of its wrappers, and
\* may close the client or a wrapper at any moment; the transport is built
\* by the client or supplied by the application.
InitSessions ==
    InitSession(SessionEvents, {2}, {1},
                {Session("secret-key", url, 30, logging) :
                    url \in {"http://localhost/api/v1", "http://localhost/api/v1//"},
                    logging \in BOOLEAN},
                {{}, {AsyncClient(5)}, {AsyncClient(30)}},
                SessionCalls)

SpecSession == InitSessions /\ [][NextSession]_vars

\* Paths handed to _get: plain ones, and ones with further leading
\* slashes, dot segments, a scheme or a whole URL
UrlPaths ==
    {"/customers", "customers", "/customers/7", "customers/7", "customers/", "", "/",
     "//customers", "///other.example/x", "../customers", "/../../x", "./x", "x//y",
     "x/..", "http://other.example/x", "https://localhost/api/v1/customers",
     "http://localhost/api/v1/appointments", "customers:7"}

UrlEvents ==
    { Received(Response(200, "{id: 7, firstName: Ann}", {Payload}, {})),
      Received(Response(503, "", {}, {})) }

\* A client for one of several base URLs, used for one GET
InitUrl ==
    \E path \in UrlPaths :
        InitSession(UrlEvents, {2}, {1},
                    {Session("secret-key", url, 30, TRUE) :
                        url \in {"http://localhost/api/v1", "http://localhost/api/v1/",
                                 "https://localhost/index.php/api/v1//"}},
                    {{}}, {Call("customers", "GET", path, {}, {}, {}, {})})

SpecUrl == InitUrl /\ [][Next]_vars

\* A service that is down or overloaded, and sometimes answers.
BackoffEvents ==
    { Received(Response(503, "", {}, {})),
      TransportFailure("ReadTimeout"),
      Received(Response(200, "{id: 7, firstName: Ann}", {Payload}, {})) }

InitBackoff == InitWith(BackoffEvents, 0..MaxBackoffRetries, 0..MaxDelay)

SpecBackoff == InitBackoff /\ [][Next]_vars

-----------------------------------------------------------------------------
(* Concurrent calls on one client                                          *)
(*                                                                         *)
(* Every call of _make_request builds its own url, headers and             *)
(* request_kwargs and defines its own decorated _execute_request, so the   *)
(* tenacity retry state belongs to the call.  The coroutines share the     *)
(* session fields, the transport and the logger, and are interleaved at    *)
(* their awaits: the request of an attempt and the sleep of a backoff.     *)

MaxCalls == 2          \* concurrent calls on the client under SpecConcurrent

MaxConcurrentRetries == 2   \* max_retries ranges over 0..MaxConcurrentRetries there

Calls == 1..MaxCalls

\* The local state of a _make_request call that has not started
NotStarted ==
    [pc |-> "idle", call |-> NoCall, request |-> NoRequest, attempt_number |-> 0,
     history |-> <<>>, outcome |-> NoOutcome, slept |-> <<>>, result |-> Pending]

\* Call i enters _make_request: its request is built and logged, and its
\* own retry loop begins attempt 1.
MakeRequestOf(i) ==
    /\ inflight[i].pc = "idle"
    /\ \E c \in callers :
         /\ inflight' = [inflight EXCEPT ![i] =
                [@ EXCEPT !.pc = "attempt", !.call = c, !.request = BuildRequest(c),
                          !.attempt_number = 1]]
         /\ log' = IF session.logging_enabled THEN Append(log, RequestLog(c)) ELSE log
    /\ UNCHANGED <<server, max_retries, retry_delay, return_raw, pc, attempt_number,
                   history, outcome, slept, result, call, request, sent>>
    /\ UNCHANGED <<sessionVars, wrapperVars, pageVars>>

\* SleepOf with the attempt counter kept in one retry object shared by the
\* calls of the client
SleepOfSharedCounter(i) ==
    /\ inflight[i].pc = "sleep"
    /\ inflight' = [j \in Calls |->
          IF j = i
          THEN [inflight[j] EXCEPT
                  !.slept = Append(@, WaitExponential(inflight[i].attempt_number)),
                  !.attempt_number = @ + 1,
                  !.pc = "attempt"]
          ELSE [inflight[j] EXCEPT
                  !.attempt_number = IF inflight[j].pc = "idle" THEN @ ELSE @ + 1]]
    /\ UNCHANGED <<server, max_retries, retry_delay, return_raw, pc, attempt_number,
                   history, outcome, slept, result>>
    /\ UNCHANGED <<sessionVars, callVars, wrapperVars, pageVars>>

\* The backoff wait of call i ends and its next attempt begins.
SleepOf(i) ==
    /\ inflight[i].pc = "sleep"
    /\ inflight' = [inflight EXCEPT ![i] =
           [@ EXCEPT !.slept = Append(@, WaitExponential(inflight[i].attempt_number)),
                     !.attempt_number = @ + 1,
                     !.pc = "attempt"]]
    /\ UNCHANGED <<server, max_retries, retry_delay, return_raw, pc, attempt_number,
                   history, outcome, slept, result>>
    /\ UNCHANGED <<sessionVars, callVars, wrapperVars, pageVars>>

\* One attempt of call i on the shared transport
AttemptOf(i) ==
    /\ inflight[i].pc = "attempt"
    /\ \E event \in IF http_client.is_closed THEN {ClientClosed} ELSE server :
         LET fut == ExecuteRequest(event, FALSE)
             mine == inflight[i]
         IN  /\ sent' = IF http_client.is_closed THEN sent
                        ELSE Append(sent, SentRequest(mine.request))
             /\ log' = log \o AttemptLogOf(mine.request.url, event, FALSE)
             /\ inflight' = [inflight EXCEPT ![i] =
                   [@ EXCEPT !.history = Append(@, event),
                             !.outcome = fut,
                             !.result = IF ~RetryIfExceptionType(fut) THEN FutureResult(fut)
                                        ELSE IF StopAfterAttempt(mine.attempt_number)
                                        THEN Reraise(fut)
                                        ELSE @,
                             !.pc = IF ~RetryIfExceptionType(fut) THEN "done"
                                    ELSE IF StopAfterAttempt(mine.attempt_number)
                                    THEN "done"
                                    ELSE "sleep"]]
    /\ UNCHANGED <<server, max_retries, retry_delay, return_raw, pc, attempt_number,
                   history, outcome, slept, result, call, request>>
    /\ UNCHANGED <<sessionVars, wrapperVars, pageVars>>

NextConcurrent == \E i \in Calls : MakeRequestOf(i) \/ AttemptOf(i) \/ SleepOf(i)

\* What the service answers to the concurrent calls
ConcurrentEvents ==
    { Received(Response(503, "", {}, {})),
      Received(Response(404, "", {}, {})),
      Received(Response(200, "{id: 7, firstName: Ann}", {Payload}, {})) }

\* The calls made concurrently: get_customer and delete_customer
ConcurrentCalls ==
    { Call("customers", "GET", "/customers/7", {}, {}, {}, {}),
      Call("customers", "DELETE", "/customers/7", {}, {}, {}, {}) }

InitConcurrent ==
    /\ InitShared(ConcurrentEvents, 0..MaxConcurrentRetries, {1, MaxDelay},
                  {Session("secret-key", "http://localhost/index.php/api/v1", 30, FALSE)},
                  {{}}, ConcurrentCalls)
    /\ operation = NoOperation
    /\ returned = Pending
    /\ inflight = [i \in Calls |-> NotStarted]

SpecConcurrent == InitConcurrent /\ [][NextConcurrent]_vars

-----------------------------------------------------------------------------
(* PaginatedResponse                                                       *)

\* The fields a Customer cannot be built without (aliases as on the wire)
RequiredFields == {"firstName", "lastName", "email"}

\* item_class.model_validate(item): the set holding the model built from
\* the item, {} when validation raises
ModelValidate(item) ==
    IF /\ item.t = "dict"
       /\ RequiredFields \subseteq Range(item.keys)
       /\ \A k \in RequiredFields : item.vals[k].t = "str"
    THEN {[cls |-> "Customer",
           id |-> IF "id" \in Range(item.keys) THEN {item.vals["id"].s} ELSE {},
           first_name |-> item.vals["firstName"].s,
           last_name |-> item.vals["lastName"].s,
           email |-> item.vals["email"].s]}
    ELSE {}

\* ParseItems giving up at the first item whose validation raises
RECURSIVE ParseItemsUntilFailure(_)
ParseItemsUntilFailure(data) ==
    IF Len(data) = 0 THEN <<>>
    ELSE LET parsed == ModelValidate(Head(data))
         IN  IF parsed = {}
             THEN <<>>
             ELSE <<CHOOSE m \in parsed : TRUE>> \o ParseItemsUntilFailure(Tail(data))

\* The loop of from_list and from_dict: every item is validated in turn,
\* an item whose validation raises is logged and left out.
RECURSIVE ParseItems(_)
ParseItems(data) ==
    IF Len(data) = 0 THEN <<>>
    ELSE LET parsed == ModelValidate(Head(data))
         IN  IF parsed = {}
             THEN ParseItems(Tail(data))
             ELSE <<CHOOSE m \in parsed : TRUE>> \o ParseItems(Tail(data))

\* PaginatedResponse.__init__
PaginatedResponse(next_page, previous_page, total, results) ==
    [tag |-> "page", next |-> next_page, previous |-> previous_page,
     total |-> total, results |-> results]

\* FromList with the total taken from the length of the raw array
FromListRawTotal(data) ==
    LET results == ParseItems(data.items)
    IN  PaginatedResponse({}, {}, JNum(Len(data.items)), results)

\* PaginatedResponse.from_list
FromList(data) ==
    LET results == ParseItems(data.items)
    IN  PaginatedResponse({}, {}, JNum(Len(results)), results)

\* data.get(key) as an Optional: None when the key is missing, and None
\* when the value is null
Get(data, key) ==
    IF key \in Range(data.keys) /\ data.vals[key] # JNull THEN {data.vals[key]} ELSE {}

\* FromDict with the total always counted from the decoded items
FromDictCountsTotal(data) ==
    IF data.t = "list" THEN FromList(data)
    ELSE IF Falsy(data) \/ data.t # "dict"
    THEN PaginatedResponse({}, {}, JNum(0), <<>>)
    ELSE LET results_data ==
                 IF "results" \in Range(data.keys) /\ data.vals["results"].t = "list"
                 THEN data.vals["results"].items
                 ELSE <<>>
             results == ParseItems(results_data)
         IN  PaginatedResponse(Get(data, "next"), Get(data, "previous"),
                               JNum(Len(results)), results)

\* FromDict without the guard for payloads that are no dict: data.get raises
FromDictUnguarded(data) ==
    IF data.t = "list" THEN FromList(data)
    ELSE IF data.t # "dict"
    THEN [tag |-> "raised", error |-> "AttributeError"]
    ELSE LET results_data ==
                 IF "results" \in Range(data.keys) /\ data.vals["results"].t = "list"
                 THEN data.vals["results"].items
                 ELSE <<>>
             results == ParseItems(results_data)
         IN  PaginatedResponse(Get(data, "next"), Get(data, "previous"),
                               IF "total" \in Range(data.keys)
                               THEN data.vals["total"]
                               ELSE JNum(Len(results)),
                               results)

\* PaginatedResponse.from_dict
FromDict(data) ==
    IF data.t = "list" THEN FromList(data)
    ELSE IF Falsy(data) \/ data.t # "dict"
    THEN PaginatedResponse({}, {}, JNum(0), <<>>)
    ELSE LET results_data ==
                 IF "results" \in Range(data.keys) /\ data.vals["results"].t = "list"
                 THEN data.vals["results"].items
                 ELSE <<>>
             results == ParseItems(results_data)
         IN  PaginatedResponse(Get(data, "next"), Get(data, "previous"),
                               IF "total" \in Range(data.keys)
                               THEN data.vals["total"]
                               ELSE JNum(Len(results)),
                               results)

\* list_customers, list_providers, list_admins: from_dict on the payload.
\* pc records the classmethod that built the page.
NormalizeDict ==
    /\ pc = "payload"
    /\ page' = FromDict(raw_payload)
    /\ pc' = "from_dict"
    /\ UNCHANGED <<server, max_retries, retry_delay, return_raw, attempt_number,
                   history, outcome, slept, result, raw_payload>>
    /\ UNCHANGED <<sessionVars, callVars>>
    /\ UNCHANGED wrapperVars
    /\ UNCHANGED inflight

\* from_list called on a bare array
NormalizeList ==
    /\ pc = "payload"
    /\ raw_payload.t = "list"
    /\ page' = FromList(raw_payload)
    /\ pc' = "from_list"
    /\ UNCHANGED <<server, max_retries, retry_delay, return_raw, attempt_number,
                   history, outcome, slept, result, raw_payload>>
    /\ UNCHANGED <<sessionVars, callVars>>
    /\ UNCHANGED wrapperVars
    /\ UNCHANGED inflight

NextNormalize == NormalizeDict \/ NormalizeList

Customer(id, first, last, email) ==
    JDict(<<"id", "firstName", "lastName", "email">>,
          [id |-> JStr(id), firstName |-> JStr(first), lastName |-> JStr(last),
           email |-> JStr(email)])

\* What a server may put in an array: two good records, a record without
\* its required fields, and something that is no record at all.
Items ==
    { Customer("1", "Ann", "Lee", "ann@x.org"),
      Customer("2", "Bob", "Ray", "bob@x.org"),
      JDict(<<"id", "firstName">>, [id |-> JStr("3"), firstName |-> JStr("Cy")]),
      JStr("junk") }

ArraysUpTo(n) == UNION {[1..k -> Items] : k \in 0..n}

\* Envelopes: results present, missing or not an array; total, next and
\* previous present or missing.
Envelope(keys, results, total, next) ==
    JDict(keys, [k \in Range(keys) |->
                    CASE k = "results" -> results
                      [] k = "total" -> total
                      [] k = "next" -> next
                      [] k = "previous" -> JNull])

Envelopes ==
    { Envelope(keys, results, total, next) :
        keys \in {<<"total">>, <<"results">>, <<"results", "total">>, <<"results", "next">>,
                  <<"total", "next", "previous">>,
                  <<"results", "total", "next", "previous">>},
        results \in {JList(a) : a \in ArraysUpTo(MaxItems - 1)} \cup {JStr("none")},
        total \in {JNum(5), JNull},
        next \in {JStr("p2"), JNull} }

RawPayloads ==
    {JList(a) : a \in ArraysUpTo(MaxItems)}
        \cup {JNull, JStr("oops"), JStr(""), JNum(7), JNum(0), JBool(TRUE), JBool(FALSE), EmptyDict}
        \cup Envelopes

InitNormalize ==
    /\ server = {}
    /\ max_retries = 3
    /\ retry_delay = 1
    /\ return_raw = FALSE
    /\ pc = "payload"
    /\ attempt_number = 0
    /\ history = <<>>
    /\ outcome = NoOutcome
    /\ slept = <<>>
    /\ result = Pending
    /\ session = DefaultSession
    /\ http_client = HttpClient({}, session.timeout)
    /\ closed_by = {}
    /\ callers = {}
    /\ call = NoCall
    /\ request = NoRequest
    /\ sent = <<>>
    /\ log = <<>>
    /\ operation = NoOperation
    /\ returned = Pending
    /\ raw_payload \in RawPayloads
    /\ page = NoPage
    /\ inflight = <<>>

SpecNormalize == InitNormalize /\ [][NextNormalize]_vars

-----------------------------------------------------------------------------
(* The resource wrappers: CustomersAPI, ProvidersAPI, AppointmentsAPI      *)

\* A wrapper method with its arguments; id, data, page and length are
\* present for the methods that take them.  data is the dictionary that
\* model_dump gives for the model handed in.
Operation(name, id, data, page_arg, length) ==
    [name |-> name, id |-> id, data |-> data, page |-> page_arg, length |-> length]

\* The resource a method works on, which is also the wrapper it belongs to
ResourceOf(name) ==
    CASE name \in {"get_customer", "create_customer", "update_customer", "delete_customer"}
            -> "customers"
      [] name \in {"get_provider", "create_provider", "update_provider", "delete_provider"}
            -> "providers"
      [] name \in {"list_appointments", "get_appointment", "create_appointment",
                   "update_appointment", "delete_appointment"}
            -> "appointments"

\* del data[key]
WithoutKey(data, key) ==
    LET keys == SelectSeq(data.keys, LAMBDA k : k # key)
    IN  JDict(keys, [k \in Range(keys) |-> data.vals[k]])

\* The body a method hands to _post or _put
BodyOf(op) ==
    LET data == CHOOSE d \in op.data : TRUE
    IN  IF /\ op.name \in {"create_customer", "create_appointment"}
           /\ "id" \in Range(data.keys)
           /\ data.vals["id"] = JNull
        THEN WithoutKey(data, "id")
        ELSE IF op.name = "update_customer" /\ "id" \in Range(data.keys)
        THEN WithoutKey(data, "id")
        ELSE data

\* The _get, _post, _put or _delete call a method makes
WrapperCall(op) ==
    LET resource == ResourceOf(op.name)
        item == "/" \o resource \o "/" \o ToString(CHOOSE i \in op.id : TRUE)
    IN  CASE op.name \in {"get_customer", "get_provider", "get_appointment"}
                -> Call(resource, "GET", item, {}, {}, {}, {})
          [] op.name \in {"create_customer", "create_provider", "create_appointment"}
                -> Call(resource, "POST", "/" \o resource, {}, {BodyOf(op)}, {}, {})
          [] op.name \in {"update_customer", "update_provider", "update_appointment"}
                -> Call(resource, "PUT", item, {}, {BodyOf(op)}, {}, {})
          [] op.name \in {"delete_customer", "delete_provider", "delete_appointment"}
                -> Call(resource, "DELETE", item, {}, {}, {}, {})

\* list_appointments: the params dictionary
ListParams(page_arg, length) ==
    JDict(<<"page", "length", "sort">>,
          [page |-> JNum(Max(1, page_arg)), length |-> JNum(Max(1, Min(100, length))),
           sort |-> JStr("-id")])

\* self._request: BaseAPI and AppointmentsAPI define no such attribute
MissingRequestAttribute ==
    Exception("AttributeError", {},
              JStr("'AppointmentsAPI' object has no attribute '_request'"), {}, {})

Value(v) == [tag |-> "value", value |-> v]

Raise(e) == [tag |-> "raise", error |-> e]

\* The fields without which the model of a resource cannot be built
RequiredOf(resource) ==
    CASE resource = "customers" -> {"firstName", "lastName", "email"}
      [] resource = "providers" -> {"firstName", "lastName", "email", "settings"}
      [] resource = "appointments" -> {"start", "end", "customerId", "providerId", "serviceId"}

\* Customer(**response), Provider.model_validate(response),
\* Appointment.from_dict(response)
BuildModel(resource, response) ==
    IF response.t = "dict" /\ RequiredOf(resource) \subseteq Range(response.keys)
    THEN Value([t |-> "model", resource |-> resource, data |-> response])
    ELSE IF response.t = "dict" \/ resource = "providers"
    THEN Raise(Exception("pydantic.ValidationError", {}, JStr("validation error"), {}, {}))
    ELSE Raise(Exception("TypeError", {}, JStr("argument is not a mapping"), {}, {}))

\* WrapperResult with delete_appointment catching the error that
\* _make_request raises for a 404
WrapperResultCatchingNotFound(name, res) ==
    IF res.tag = "ok"
    THEN CASE name \in {"delete_customer", "delete_appointment"} -> Value(JBool(TRUE))
           [] name = "delete_provider" -> Value(JNull)
           [] OTHER -> BuildModel(ResourceOf(name), res.value)
    ELSE IF /\ name \in {"get_customer", "get_appointment"}
            /\ res.error.type = "ResourceNotFoundError"
    THEN Value(JNull)
    ELSE IF /\ name \in {"delete_customer", "delete_appointment"}
            /\ res.error.type = "ResourceNotFoundError"
    THEN Value(JBool(FALSE))
    ELSE Raise(res.error)

\* WrapperResult with delete_provider answering False for a 404
WrapperResultDeleteProviderFalse(name, res) ==
    IF res.tag = "ok"
    THEN CASE name \in {"delete_customer", "delete_appointment"} -> Value(JBool(TRUE))
           [] name = "delete_provider" -> Value(JNull)
           [] OTHER -> BuildModel(ResourceOf(name), res.value)
    ELSE IF /\ name \in {"get_customer", "get_appointment"}
            /\ res.error.type = "ResourceNotFoundError"
    THEN Value(JNull)
    ELSE IF /\ name \in {"delete_customer", "delete_provider"}
            /\ res.error.type = "ResourceNotFoundError"
    THEN Value(JBool(FALSE))
    ELSE Raise(res.error)

\* What a method makes of the outcome of its call: the try/except around
\* the call and the return statement.  delete_appointment catches
\* httpx.HTTPStatusError and looks at the status of its response.
WrapperResult(name, res) ==
    IF res.tag = "ok"
    THEN CASE name \in {"delete_customer", "delete_appointment"} -> Value(JBool(TRUE))
           [] name = "delete_provider" -> Value(JNull)
           [] OTHER -> BuildModel(ResourceOf(name), res.value)
    ELSE IF /\ name \in {"get_customer", "get_appointment"}
            /\ res.error.type = "ResourceNotFoundError"
    THEN Value(JNull)
    ELSE IF name = "delete_customer" /\ res.error.type = "ResourceNotFoundError"
    THEN Value(JBool(FALSE))
    ELSE IF /\ name = "delete_appointment"
            /\ res.error.type = "HTTPStatusError"
            /\ res.error.status_code = {404}
    THEN Value(JBool(FALSE))
    ELSE Raise(res.error)

\* The method returns or raises after its call has resolved.
WrapperReturn ==
    /\ pc = "done"
    /\ operation # NoOperation
    /\ returned' = WrapperResult(operation.name, result)
    /\ pc' = "returned"
    /\ UNCHANGED <<server, max_retries, retry_delay, return_raw, attempt_number,
                   history, outcome, slept, result, operation>>
    /\ UNCHANGED <<sessionVars, callVars, pageVars>>
    /\ UNCHANGED inflight

\* list_appointments: the params are computed and self._request is looked
\* up, which raises before any call is made.
ListAppointments ==
    /\ pc = "idle"
    /\ operation.name = "list_appointments"
    /\ returned' = Raise(MissingRequestAttribute)
    /\ pc' = "returned"
    /\ UNCHANGED <<server, max_retries, retry_delay, return_raw, attempt_number,
                   history, outcome, slept, result, operation>>
    /\ UNCHANGED <<sessionVars, callVars, pageVars>>
    /\ UNCHANGED inflight

NextWrapper == Next \/ WrapperReturn \/ ListAppointments

\* Provider.model_dump(by_alias=True) of a new provider with a password
ProviderData(password) ==
    JDict(<<"id", "firstName", "lastName", "email", "mobile", "phone", "address", "city",
            "state", "zip", "notes", "timezone", "language", "settings", "services">>,
          [id |-> JNull, firstName |-> JStr("John"), lastName |-> JStr("Doe"),
           email |-> JStr("john.doe@example.com"), mobile |-> JNull,
           phone |-> JStr("123-456-7890"), address |-> JNull, city |-> JNull,
           state |-> JNull, zip |-> JNull, notes |-> JNull, timezone |-> JNull,
           language |-> JNull,
           settings |-> JDict(<<"username", "password", "workingPlan">>,
                              [username |-> JStr("johndoe"), password |-> JStr(password),
                               workingPlan |-> JNull]),
           services |-> JList(<<JNum(1)>>)])

\* Customer.model_dump(exclude_unset=True, by_alias=True) with the id set
CustomerDump(id) ==
    JDict(<<"id", "firstName", "lastName", "email">>,
          [id |-> id, firstName |-> JStr("Ann"), lastName |-> JStr("Lee"),
           email |-> JStr("ann@example.com")])

\* Appointment.model_dump(by_alias=True, exclude_unset=True)
AppointmentDump ==
    JDict(<<"start", "end", "customerId", "providerId", "serviceId">>,
          [start |-> JStr("2026-01-05 10:00:00"), end |-> JStr("2026-01-05 10:30:00"),
           customerId |-> JNum(7), providerId |-> JNum(2), serviceId |-> JNum(1)])

Passwords == {"SecurePassword123!", "correct horse"}

\* The methods an application calls, with their arguments
WrapperOperations ==
    {Operation(name, {7}, {}, {}, {}) :
        name \in {"get_customer", "delete_customer", "get_provider", "delete_provider",
                  "get_appointment", "delete_appointment"}}
    \cup {Operation("create_customer", {}, {CustomerDump(JNull)}, {}, {}),
          Operation("update_customer", {7}, {CustomerDump(JNum(7))}, {}, {}),
          Operation("create_appointment", {}, {AppointmentDump}, {}, {}),
          Operation("update_appointment", {7}, {AppointmentDump}, {}, {})}
    \cup {Operation("create_provider", {}, {ProviderData(password)}, {}, {}) :
            password \in Passwords}
    \cup {Operation("update_provider", {7}, {ProviderData(password)}, {}, {}) :
            password \in Passwords}
    \cup {Operation("list_appointments", {}, {}, {page_arg}, {length}) :
            page_arg \in {-1, 0, 1, 2}, length \in {-1, 0, 1, 10, 100, 101}}

\* A record that every model can be built from
ResourcePayload ==
    JDict(<<"id", "firstName", "lastName", "email", "settings", "start", "end",
            "customerId", "providerId", "serviceId">>,
          [id |-> JNum(7), firstName |-> JStr("Ann"), lastName |-> JStr("Lee"),
           email |-> JStr("ann@example.com"),
           settings |-> JDict(<<"username">>, [username |-> JStr("ann")]),
           start |-> JStr("2026-01-05 10:00:00"), end |-> JStr("2026-01-05 10:30:00"),
           customerId |-> JNum(7), providerId |-> JNum(2), serviceId |-> JNum(1)])

WrapperEvents ==
    { Received(Response(200, "{id: 7, ...}", {ResourcePayload}, {})),
      Received(Response(204, "", {}, {})),
      Received(Response(404, "{message: try again}", {MessageBody}, {"req-4"})),
      Received(Response(500, "", {}, {})),
      TransportFailure("ConnectError") }

\* An application that calls one method of a wrapper
InitWrapper ==
    \E op \in WrapperOperations :
        /\ operation = op
        /\ returned = Pending
        /\ InitExecutor(WrapperEvents, {2}, {1}, {DefaultSession}, {{}},
                        IF op.name = "list_appointments" THEN {} ELSE {WrapperCall(op)})

SpecWrapper == InitWrapper /\ [][NextWrapper]_vars

-----------------------------------------------------------------------------
(* Vocabulary of the properties                                            *)

\* The error kind that an exception class stands for
KindOf(type) ==
    CASE type = "AuthenticationError" -> "Authentication"
      [] type = "ResourceNotFoundError" -> "NotFound"
      [] type = "ValidationError" -> "Validation"
      [] type = "RateLimitError" -> "RateLimited"
      [] type = "ServerError" -> "ServerError"
      [] type = "EasyAppointmentsError" -> "Unknown"
      [] type \in TransportErrors -> "Transport"
      [] OTHER -> "Other"

RetryableKinds == {"RateLimited", "ServerError", "Transport"}

TerminalKinds == {"Authentication", "NotFound", "Validation", "Unknown"}

\* The table of status codes and kinds
TableKind(status) ==
    CASE status = 401 -> "Authentication"
      [] status = 404 -> "NotFound"
      [] status = 400 -> "Validation"
      [] status = 429 -> "RateLimited"
      [] status \in 500..599 -> "ServerError"
      [] OTHER -> "Unknown"

\* How an attempt is expected to end, given what the transport did
EventKind(event) ==
    IF event.kind = "error" THEN "Transport"
    ELSE IF ~(event.response.status_code \in 200..299) THEN TableKind(event.response.status_code)
    ELSE IF ~return_raw /\ event.response.status_code # 204 /\ event.response.json = {}
    THEN "Unknown"
    ELSE "Success"

Attempts == Len(history)

LastEvent == history[Len(history)]

Failed == pc = "done" /\ result.tag = "error"

Succeeded == pc = "done" /\ result.tag = "ok"

-----------------------------------------------------------------------------
(* C1: the kind of the error raised for a non-2xx response is decided by   *)
(* the status code alone, by the table 401 Authentication, 404 NotFound,   *)
(* 400 Validation, 429 RateLimited, 500..599 ServerError, anything else    *)
(* Unknown; whatever the body and the headers are.                         *)
C1_KindFollowsStatus ==
    (Attempts > 0 /\ LastEvent.kind = "response" /\ ~(LastEvent.response.status_code \in 200..299))
        => /\ outcome.state = "exception"
           /\ KindOf(outcome.exception.type) = TableKind(LastEvent.response.status_code)
           /\ outcome.exception.status_code = {LastEvent.response.status_code}

C1_Witness ==
    /\ Attempts > 0
    /\ LastEvent.kind = "response"
    /\ LastEvent.response.status_code = 599
    /\ LastEvent.response.json # {}
    /\ LastEvent.response.request_id # {}
    /\ outcome.state = "exception"
    /\ KindOf(outcome.exception.type) = "ServerError"

(* C2: another attempt follows only a failure of kind RateLimited,         *)
(* ServerError or Transport; an Authentication, NotFound, Validation or    *)
(* Unknown error ends the call at once with that error, so a call whose    *)
(* first attempt gets one makes exactly one attempt.                       *)
C2_OnlyRetryableKindsRetried ==
    /\ \A i \in 1..(Attempts - 1) : EventKind(history[i]) \in RetryableKinds
    /\ pc = "sleep" => EventKind(LastEvent) \in RetryableKinds
    /\ (Attempts > 0 /\ EventKind(LastEvent) \in TerminalKinds)
          => /\ Failed
             /\ KindOf(result.error.type) = EventKind(LastEvent)
    /\ (Attempts > 0 /\ EventKind(history[1]) \in TerminalKinds)
          => Attempts = 1 /\ attempt_number = 1

C2_Witness ==
    /\ Failed
    /\ max_retries = 3
    /\ Attempts = 1
    /\ EventKind(history[1]) = "Validation"
    /\ KindOf(result.error.type) = "Validation"

(* C3 as stated: a call makes at least 1 and at most max_retries attempts. *)
C3_AtMostMaxRetriesAttempts ==
    /\ Attempts <= max_retries
    /\ pc = "done" => Attempts >= 1

(* C3, amended: a call makes at least 1 attempt and at most max_retries    *)
(* attempts, or 1 attempt when max_retries is below 1; a retry is issued   *)
(* only while the attempt count is below max_retries.                      *)
C3_AttemptsBounded ==
    /\ Attempts <= Max(1, max_retries)
    /\ attempt_number <= Max(1, max_retries)
    /\ pc = "done" => Attempts >= 1
    /\ pc = "sleep" => attempt_number < max_retries
    /\ Len(slept) <= Max(1, max_retries) - 1

C3_Witness ==
    /\ Failed
    /\ max_retries = 3
    /\ Attempts = 3
    /\ Len(slept) = 2

(* C4: when the first k attempts fail with retryable errors and attempt    *)
(* k+1 succeeds, the call returns the payload of attempt k+1 after exactly *)
(* k+1 attempts.                                                           *)
C4_SuccessAfterRetries ==
    (/\ Attempts > 0
     /\ \A i \in 1..(Attempts - 1) : EventKind(history[i]) \in RetryableKinds
     /\ EventKind(LastEvent) = "Success")
        => /\ Succeeded
           /\ attempt_number = Attempts
           /\ Len(slept) = Attempts - 1
           /\ result.value =
                 IF return_raw THEN [t |-> "response", response |-> LastEvent.response]
                 ELSE IF LastEvent.response.status_code = 204 THEN EmptyDict
                 ELSE CHOOSE b \in LastEvent.response.json : TRUE

C4_Witness ==
    /\ Succeeded
    /\ max_retries = 3
    /\ Attempts = 3
    /\ EventKind(history[1]) = "ServerError"
    /\ EventKind(history[2]) = "ServerError"
    /\ ~return_raw
    /\ result.value = Payload

(* C5: when every allowed attempt fails with a retryable error the caller  *)
(* receives the error of the last attempt itself, with its kind, status    *)
(* code, message, body and request id, not a wrapper and not an earlier    *)
(* attempt's error; a call whose last attempt failed never ends in a       *)
(* result that is no error.                                                *)
C5_LastErrorSurfaces ==
    (pc = "done" /\ EventKind(LastEvent) # "Success")
        => /\ result.tag = "error"
           /\ result.error = outcome.exception
           /\ KindOf(result.error.type) = EventKind(LastEvent)
           /\ LastEvent.kind = "response" /\ ~(LastEvent.response.status_code \in 200..299)
                 => /\ result.error.status_code = {LastEvent.response.status_code}
                    /\ result.error.response_body = LastEvent.response.json
                    /\ result.error.request_id = LastEvent.response.request_id
                    /\ result.error.message = ErrorMessage(LastEvent.response)

C5_Witness ==
    /\ Failed
    /\ max_retries = 3
    /\ Attempts = 3
    /\ EventKind(history[1]) = "Transport"
    /\ EventKind(history[2]) = "RateLimited"
    /\ result.error.type = "ServerError"
    /\ result.error.status_code = {503}
    /\ result.error.request_id = {"req-5"}
    /\ result.error.message = JStr("try again")

(* C6: the delay waited after failed attempt n is                          *)
(* min(retry_delay * 2^(n-1), retry_delay * 10): 1, 2, 4, 8 for a delay of *)
(* 1 s, never decreasing, never above 10 * retry_delay.                    *)
C6_BackoffExponentialCapped ==
    /\ \A n \in 1..Len(slept) :
          /\ slept[n] = Min(retry_delay * (2 ^ (n - 1)), retry_delay * 10)
          /\ slept[n] <= 10 * retry_delay
          /\ n > 1 => slept[n - 1] <= slept[n]
    /\ retry_delay = 1 =>
          \A n \in 1..Min(4, Len(slept)) : slept[n] = <<1, 2, 4, 8>>[n]

C6_Witness ==
    /\ retry_delay = 1
    /\ Len(slept) = 5
    /\ slept = <<1, 2, 4, 8, 10>>

(* C7 as stated: a transport failure on some attempt is the error the      *)
(* caller receives whenever the call does not later succeed.               *)
C7_TransportErrorReceivedUnlessSuccess ==
    (Failed /\ \E i \in 1..Attempts : history[i].kind = "error")
        => /\ KindOf(result.error.type) = "Transport"
           /\ result.error.status_code = {}

(* C7, amended: an attempt that fails with no response received gives an   *)
(* error of kind Transport without a status code, and that is the error    *)
(* the caller receives when that attempt is the last one of the call.      *)
C7_TransportErrorOfLastAttempt ==
    (Attempts > 0 /\ LastEvent.kind = "error")
        => /\ outcome.state = "exception"
           /\ KindOf(outcome.exception.type) = "Transport"
           /\ outcome.exception.status_code = {}
           /\ pc = "done" => result = [tag |-> "error", error |-> outcome.exception]

C7_Witness ==
    /\ Failed
    /\ Attempts = 2
    /\ history[1].kind = "response"
    /\ LastEvent.kind = "error"
    /\ KindOf(result.error.type) = "Transport"
    /\ result.error.status_code = {}

(* C8: a 204 response resolves the call successfully with the empty        *)
(* payload whatever its body is, and never with a JSON parse error; a call *)
(* that asked for the raw response gets that response.                     *)
C8_NoContentIsEmptyPayload ==
    (Attempts > 0 /\ LastEvent.kind = "response" /\ LastEvent.response.status_code = 204)
        => /\ Succeeded
           /\ ~return_raw => result.value = EmptyDict
           /\ return_raw => result.value = [t |-> "response", response |-> LastEvent.response]

C8_Witness ==
    /\ Succeeded
    /\ ~return_raw
    /\ LastEvent.kind = "response"
    /\ LastEvent.response.status_code = 204
    /\ LastEvent.response.text = "<html>"
    /\ result.value = EmptyDict

C10_BareArrayKeepsDecodableItems ==
    (pc \in {"from_dict", "from_list"} /\ raw_payload.t = "list")
        => LET Decodes(item) == ModelValidate(item) # {}
               good == SelectSeq(raw_payload.items, Decodes)
           IN  /\ Len(page.results) = Len(good)
               /\ \A i \in 1..Len(good) : page.results[i] \in ModelValidate(good[i])
               /\ page.total = JNum(Len(good))
               /\ page.next = {}
               /\ page.previous = {}

C10_Witness ==
    /\ pc = "from_list"
    /\ Len(raw_payload.items) = 3
    /\ ModelValidate(raw_payload.items[1]) = {}
    /\ ModelValidate(raw_payload.items[2]) # {}
    /\ raw_payload.items[3] = JStr("junk")
    /\ Len(page.results) = 1
    /\ page.results[1].first_name = "Bob"
    /\ page.total = JNum(1)

(* C11 as stated: for every bare array, also one with elements that fail  *)
(* to decode, total is the length of the raw array and both cursors are    *)
(* absent.                                                                 *)
C11_TotalIsRawArrayLength ==
    (pc \in {"from_dict", "from_list"} /\ raw_payload.t = "list")
        => /\ page.total = JNum(Len(raw_payload.items))
           /\ page.next = {}
           /\ page.previous = {}

(* C11, amended: for every bare array total is the number of items of the  *)
(* page, that is of the elements that decoded, which is the length of the  *)
(* raw array exactly when every element decodes; both cursors are absent.  *)
C11_TotalIsPageLength ==
    (pc \in {"from_dict", "from_list"} /\ raw_payload.t = "list")
        => /\ page.total = JNum(Len(page.results))
           /\ Len(page.results) <= Len(raw_payload.items)
           /\ (page.total = JNum(Len(raw_payload.items)))
                 <=> (\A i \in 1..Len(raw_payload.items) : ModelValidate(raw_payload.items[i]) # {})
           /\ page.next = {}
           /\ page.previous = {}

C11_Witness ==
    /\ pc = "from_dict"
    /\ raw_payload.t = "list"
    /\ Len(raw_payload.items) = 3
    /\ raw_payload.items[2] = JStr("junk")
    /\ page.total = JNum(2)
    /\ Len(page.results) = 2

(* C12: normalising an object reads its results (empty when missing or no  *)
(* array), decodes them skipping the ones that fail, takes total from the  *)
(* object whenever the key is there and else counts the decoded items, and *)
(* copies next and previous (absent when missing); the result has results, *)
(* total, next and previous, results being a list.                         *)
C12_EnvelopeNormalised ==
    (pc = "from_dict" /\ raw_payload.t = "dict")
        => LET Has(k) == k \in Range(raw_payload.keys)
               Cursor(k) == IF Has(k) /\ raw_payload.vals[k].t # "null"
                            THEN {raw_payload.vals[k]} ELSE {}
               raw == IF Has("results") /\ raw_payload.vals["results"].t = "list"
                      THEN raw_payload.vals["results"].items ELSE <<>>
               Decodes(item) == ModelValidate(item) # {}
               good == SelectSeq(raw, Decodes)
           IN  /\ {"results", "total", "next", "previous"} \subseteq DOMAIN page
               /\ DOMAIN page.results = 1..Len(page.results)
               /\ Len(page.results) = Len(good)
               /\ \A i \in 1..Len(good) : page.results[i] \in ModelValidate(good[i])
               /\ page.total = IF Has("total") THEN raw_payload.vals["total"]
                               ELSE JNum(Len(good))
               /\ page.next = Cursor("next")
               /\ page.previous = Cursor("previous")

C12_Witness ==
    /\ pc = "from_dict"
    /\ raw_payload.t = "dict"
    /\ raw_payload.keys = <<"results", "total", "next", "previous">>
    /\ raw_payload.vals["results"].t = "list"
    /\ Len(raw_payload.vals["results"].items) = 2
    /\ Len(page.results) = 1
    /\ page.total = JNum(5)
    /\ page.next = {JStr("p2")}
    /\ page.previous = {}

(* C13: normalising a payload that is null or neither an array nor an      *)
(* object (a string, a number, a boolean) never fails and gives the empty  *)
(* page: no items, total 0, no cursors.                                    *)
C13_ScalarGivesEmptyPage ==
    (pc = "from_dict" /\ raw_payload.t \in {"null", "str", "num", "bool"})
        => /\ page.tag = "page"
           /\ page.results = <<>>
           /\ page.total = JNum(0)
           /\ page.next = {}
           /\ page.previous = {}

C13_Witness ==
    /\ pc = "from_dict"
    /\ raw_payload = JBool(TRUE)
    /\ page.tag = "page"
    /\ page.total = JNum(0)

(* C15 as stated: the message of the error raised for a non-2xx response with a     *)
(* JSON body is chosen by the first rule that matches: a non-empty array   *)
(* gives its elements as strings joined by "; "; an object with the key    *)
(* message gives that value; an object with the key error gives that value *)
(* (message wins over error); an object with an array among its values     *)
(* gives "field: err1, err2" for each field, joined by "; ".                *)
C15_MessageByFirstRule ==
    (/\ Attempts > 0
     /\ LastEvent.kind = "response"
     /\ ~(LastEvent.response.status_code \in 200..299)
     /\ LastEvent.response.json # {})
        => LET body == CHOOSE b \in LastEvent.response.json : TRUE
               message == outcome.exception.message
               Has(k) == k \in Range(body.keys)
               Line(k) == IF body.vals[k].t = "list"
                          THEN k \o ": " \o Join(", ", [i \in 1..Len(body.vals[k].items) |->
                                                            Str(body.vals[k].items[i])])
                          ELSE k \o ": " \o Str(body.vals[k])
           IN  /\ (body.t = "list" /\ body.items # <<>>)
                     => message = JStr(Join("; ", [i \in 1..Len(body.items) |-> Str(body.items[i])]))
               /\ (body.t = "dict" /\ Has("message"))
                     => message = body.vals["message"]
               /\ (body.t = "dict" /\ ~Has("message") /\ Has("error"))
                     => message = body.vals["error"]
               /\ (body.t = "dict" /\ ~Has("message") /\ ~Has("error")
                      /\ \E k \in Range(body.keys) : body.vals[k].t = "list")
                     => message = JStr(Join("; ", [i \in 1..Len(body.keys) |-> Line(body.keys[i])]))

C15_Witness ==
    /\ Attempts > 0
    /\ LastEvent.kind = "response"
    /\ LastEvent.response.status_code = 400
    /\ LastEvent.response.text = "{email: [invalid, taken], code: E1, phone: []}"
    /\ outcome.state = "exception"
    /\ outcome.exception.message = JStr("email: invalid, taken; code: E1; phone: ")

C15_WitnessMessageWins ==
    /\ Attempts > 0
    /\ LastEvent.kind = "response"
    /\ LastEvent.response.text = "{error: denied, message: try again}"
    /\ outcome.state = "exception"
    /\ outcome.exception.message = JStr("try again")

(* C16 as stated: a JSON body that matches none of the four rules (an      *)
(* empty array, a scalar or null, an object without message, error and     *)
(* array value) gives the whole body as a string; a body that is no JSON   *)
(* gives the raw text, or "HTTP error <code>" when the text is empty, and   *)
(* the error has no raw body.                                              *)
C16_UnmatchedBodyIsStringified ==
    (/\ Attempts > 0
     /\ LastEvent.kind = "response"
     /\ ~(LastEvent.response.status_code \in 200..299))
        => LET response == LastEvent.response
               error == outcome.exception
           IN  IF response.json = {}
               THEN /\ error.response_body = {}
                    /\ error.message =
                          IF response.text # "" THEN JStr(response.text)
                          ELSE JStr("HTTP error " \o ToString(response.status_code))
               ELSE LET body == CHOOSE b \in response.json : TRUE
                        Unmatched ==
                            \/ body.t = "list" /\ body.items = <<>>
                            \/ body.t \in {"str", "num", "bool", "null"}
                            \/ /\ body.t = "dict"
                               /\ "message" \notin Range(body.keys)
                               /\ "error" \notin Range(body.keys)
                               /\ \A k \in Range(body.keys) : body.vals[k].t # "list"
                    IN  Unmatched => error.message = JStr(Str(body))

(* C16, amended: an object without message, error and array value gives    *)
(* the whole body as a string; an empty array, a scalar or null gives the  *)
(* fixed message "Unknown error"; a body that is no JSON gives the raw      *)
(* text, or "HTTP error <code>" when the text is empty, and the error has   *)
(* no raw body.                                                            *)
C16_UnmatchedBodyMessage ==
    (/\ Attempts > 0
     /\ LastEvent.kind = "response"
     /\ ~(LastEvent.response.status_code \in 200..299))
        => LET response == LastEvent.response
               error == outcome.exception
           IN  IF response.json = {}
               THEN /\ error.response_body = {}
                    /\ error.message =
                          IF response.text # "" THEN JStr(response.text)
                          ELSE JStr("HTTP error " \o ToString(response.status_code))
               ELSE LET body == CHOOSE b \in response.json : TRUE
                    IN  /\ (\/ body.t = "list" /\ body.items = <<>>
                            \/ body.t \in {"str", "num", "bool", "null"})
                              => error.message = JStr("Unknown error")
                        /\ (/\ body.t = "dict"
                            /\ "message" \notin Range(body.keys)
                            /\ "error" \notin Range(body.keys)
                            /\ \A k \in Range(body.keys) : body.vals[k].t # "list")
                              => error.message = JStr(Str(body))

C16_Witness ==
    /\ Attempts > 0
    /\ LastEvent.kind = "response"
    /\ LastEvent.response.status_code = 422
    /\ LastEvent.response.text = "{detail: gone, code: 7}"
    /\ outcome.state = "exception"
    /\ outcome.exception.message = JStr("{'detail': 'gone', 'code': 7}")

C16_WitnessUnknownError ==
    /\ Attempts > 0
    /\ LastEvent.kind = "response"
    /\ LastEvent.response.json = {JList(<<>>)}
    /\ outcome.state = "exception"
    /\ outcome.exception.message = JStr("Unknown error")

C16_WitnessHttpError ==
    /\ Attempts > 0
    /\ LastEvent.kind = "response"
    /\ LastEvent.response.status_code = 503
    /\ LastEvent.response.text = ""
    /\ outcome.state = "exception"
    /\ outcome.exception.response_body = {}
    /\ outcome.exception.message = JStr("HTTP error 503")

\* The request records of the log
RequestRecords == SelectSeq(log, LAMBDA r : r.msg = "Making request")

BodyCarrying == call # NoCall /\ call.method # "GET" /\ call.data # {}

(* C17 as stated: with logging enabled the body of a body-carrying call is *)
(* logged on every attempt, and in every such record each top-level field  *)
(* named password, token, secret or key holds the mask while every other   *)
(* field is unchanged.                                                     *)
C17_BodyLoggedOnEveryAttempt ==
    (session.logging_enabled /\ BodyCarrying /\ pc \in {"sleep", "done"})
        => LET data == CHOOSE d \in call.data : TRUE
           IN  /\ Len(RequestRecords) = Attempts
               /\ \A i \in 1..Len(RequestRecords) :
                    /\ RequestRecords[i].data # {}
                    /\ LET logged == CHOOSE d \in RequestRecords[i].data : TRUE
                       IN  /\ logged.keys = data.keys
                           /\ \A k \in Range(data.keys) :
                                logged.vals[k] =
                                    IF k \in {"password", "token", "secret", "key"}
                                    THEN JStr("*****") ELSE data.vals[k]

(* C17, amended: with logging enabled the body of a body-carrying call is  *)
(* logged once per call, before the first attempt and not again on a       *)
(* retry; in that record each top-level field named api_key, key, secret,  *)
(* password or token that holds a non-empty value holds the mask, every     *)
(* other field is unchanged, and an empty body is logged as absent.         *)
C17_BodyLoggedOncePerCall ==
    (session.logging_enabled /\ BodyCarrying)
        => LET data == CHOOSE d \in call.data : TRUE
               Empty(v) == v \in {JNull, JBool(FALSE), JNum(0), JStr(""), JList(<<>>), EmptyDict}
           IN  /\ Len(RequestRecords) = 1
               /\ log[1] = RequestRecords[1]
               /\ IF Empty(data) THEN log[1].data = {}
                  ELSE /\ log[1].data # {}
                       /\ LET logged == CHOOSE d \in log[1].data : TRUE
                          IN  /\ logged.keys = data.keys
                              /\ \A k \in Range(data.keys) :
                                   logged.vals[k] =
                                       IF /\ k \in {"api_key", "key", "secret", "password", "token"}
                                          /\ ~Empty(data.vals[k])
                                       THEN JStr("*****") ELSE data.vals[k]

C17_Witness ==
    /\ session.logging_enabled
    /\ BodyCarrying
    /\ call.data = {CustomerData}
    /\ pc = "done"
    /\ Attempts = 2
    /\ Len(sent) = 2
    /\ Len(RequestRecords) = 1
    /\ (CHOOSE d \in log[1].data : TRUE).vals["password"] = JStr("*****")
    /\ (CHOOSE d \in log[1].data : TRUE).vals["token"] = JStr("*****")
    /\ (CHOOSE d \in log[1].data : TRUE).vals["name"] = JStr("Ann")

(* C18: every request sent carries Authorization: Bearer <api key>,        *)
(* Content-Type: application/json and Accept: application/json, and every  *)
(* header given by the caller; where the caller gives a header of the same *)
(* name as a standard one, Authorization included, the caller's value is   *)
(* the one sent.                                                           *)
C18_HeadersSent ==
    \A i \in 1..Len(sent) :
        LET headers == sent[i].headers
            extra == IF call.additional_headers = {} THEN <<>>
                     ELSE CHOOSE h \in call.additional_headers : TRUE
            Standard(name) == CASE name = "Authorization" -> "Bearer " \o session.api_key
                                [] name = "Content-Type" -> "application/json"
                                [] name = "Accept" -> "application/json"
        IN  /\ DOMAIN headers = {"Authorization", "Content-Type", "Accept"} \cup DOMAIN extra
            /\ \A name \in DOMAIN extra : headers[name] = extra[name]
            /\ \A name \in {"Authorization", "Content-Type", "Accept"} \ DOMAIN extra :
                 headers[name] = Standard(name)

C18_Witness ==
    /\ Len(sent) = 2
    /\ call.wrapper = "admins"
    /\ call.method = "DELETE"
    /\ sent[2].headers["Authorization"] = "Basic abc"
    /\ sent[2].headers["X-Trace"] = "t2"
    /\ sent[2].headers["Content-Type"] = "application/json"
    /\ sent[2].headers["Accept"] = "application/json"

(* C19 as stated: every attempt is sent with the timeout of the call when  *)
(* one is given and with the session's default timeout otherwise, whether  *)
(* the client built the transport or the application supplied it.          *)
C19_EffectiveTimeout ==
    \A i \in 1..Len(sent) :
        sent[i].timeout = IF call.timeout # {} THEN CHOOSE t \in call.timeout : TRUE
                          ELSE session.timeout

(* C20 as stated: the transport is released only by the close operation of *)
(* the client, and no call of a wrapper fails because another operation,   *)
(* such as the close of a single wrapper, released it.                     *)
C20_ReleasedOnlyByClientClose ==
    /\ http_client.is_closed => closed_by = {"client"}
    /\ \A i \in 1..Attempts :
         history[i].kind = "closed" => closed_by = {"client"}

(* C21: once the transport is closed, an attempt sends no HTTP request and *)
(* the call fails at once with the error of the closed client, so a call   *)
(* begun after the client's close fails without a request being sent; the  *)
(* close itself changes nothing of a call in flight (its position, its      *)
(* attempts, its outcome); and closing a closed client changes nothing.    *)
C21_ClosedClientRefusesNewCalls ==
    /\ [](/\ \A i \in 1..Attempts :
               history[i].kind = "closed"
                   => /\ i = Attempts
                      /\ pc = "done"
                      /\ result.tag = "error"
                      /\ result.error.type = "RuntimeError"
          /\ Len(sent) = Cardinality({i \in 1..Attempts : history[i].kind # "closed"})
          /\ (Attempts > 0 /\ history[1].kind = "closed") => sent = <<>>)
    /\ [][/\ http_client' # http_client
             => UNCHANGED <<pc, attempt_number, history, outcome, slept, result,
                            call, request, sent, log>>
          /\ http_client.is_closed => http_client' = http_client]_vars

C21_Witness ==
    /\ closed_by = {"client"}
    /\ call # NoCall
    /\ call.wrapper = "providers"
    /\ Attempts = 1
    /\ history[1].kind = "closed"
    /\ sent = <<>>
    /\ Failed
    /\ result.error.type = "RuntimeError"

\* A call that was in flight when the client was closed and has resolved
C21_WitnessInFlight ==
    /\ closed_by = {"client"}
    /\ Attempts = 2
    /\ history[1].kind = "response"
    /\ history[2].kind = "closed"
    /\ Len(sent) = 1
    /\ Failed

\* The call of the method has ended with the NotFound error
NotFoundRaised ==
    /\ pc = "returned"
    /\ result.tag = "error"
    /\ result.error.type = "ResourceNotFoundError"

Lookups == {"get_customer", "get_appointment"}

Mutating ==
    {"create_customer", "update_customer", "delete_customer",
     "create_provider", "update_provider", "delete_provider",
     "create_appointment", "update_appointment", "delete_appointment"}

(* C22 as stated: a create, update or delete of a provider, customer or   *)
(* appointment whose call ends with the NotFound error raises that error;  *)
(* get_customer and get_appointment return None instead.                   *)
C22_MutatingPropagatesNotFound ==
    NotFoundRaised
        => /\ operation.name \in Mutating => returned = Raise(result.error)
           /\ operation.name \in Lookups => returned = Value(JNull)

(* C22, amended: every create and update, delete_provider and             *)
(* delete_appointment raise the NotFound error their call ended with;      *)
(* delete_customer returns False for it; get_customer and get_appointment  *)
(* return None for it, and get_provider raises it.                         *)
C22_NotFoundByMethod ==
    NotFoundRaised
        => /\ operation.name \in Mutating \ {"delete_customer"}
                => returned = Raise(result.error)
           /\ operation.name = "delete_customer" => returned = Value(JBool(FALSE))
           /\ operation.name \in Lookups => returned = Value(JNull)
           /\ operation.name = "get_provider" => returned = Raise(result.error)

C22_Witness ==
    /\ NotFoundRaised
    /\ operation.name = "delete_customer"
    /\ LastEvent.response.status_code = 404
    /\ returned = Value(JBool(FALSE))

C22_WitnessPropagates ==
    /\ NotFoundRaised
    /\ operation.name = "update_provider"
    /\ returned.tag = "raise"
    /\ returned.error.type = "ResourceNotFoundError"

(* C26 as stated: delete_appointment returns True when the deletion        *)
(* succeeds, returns False when the server answers 404 for the             *)
(* appointment, and raises every other error of its call.                  *)
C26_DeleteAppointmentResult ==
    (pc = "returned" /\ operation.name = "delete_appointment")
        => IF result.tag = "ok" THEN returned = Value(JBool(TRUE))
           ELSE IF LastEvent.kind = "response" /\ LastEvent.response.status_code = 404
           THEN returned = Value(JBool(FALSE))
           ELSE returned = Raise(result.error)

(* C27 as stated: list_appointments sends one GET for the appointments     *)
(* collection with page max(1, page) and length clamped into 1..100, and   *)
(* returns a page.                                                         *)
C27_ListAppointmentsOneGet ==
    (pc = "returned" /\ operation.name = "list_appointments")
        => /\ Len(sent) = 1
           /\ sent[1].method = "GET"
           /\ sent[1].params = {ListParams(CHOOSE p \in operation.page : TRUE,
                                           CHOOSE l \in operation.length : TRUE)}
           /\ returned.tag = "value"

\* The text occurs as a string somewhere in the JSON value
RECURSIVE Mentions(_, _)
Mentions(v, text) ==
    CASE v.t = "str" -> v.s = text
      [] v.t = "list" -> \E i \in 1..Len(v.items) : Mentions(v.items[i], text)
      [] v.t = "dict" -> \E k \in Range(v.keys) : Mentions(v.vals[k], text)
      [] OTHER -> FALSE

(* C28 as stated: the password under settings.password of the body of     *)
(* create_provider and update_provider occurs in no log record; the body   *)
(* that is logged holds the mask in its place.                             *)
C28_ProviderPasswordNeverLogged ==
    operation.name \in {"create_provider", "update_provider"}
        => LET password == (CHOOSE d \in operation.data : TRUE).vals["settings"].vals["password"].s
           IN  \A i \in 1..Len(log) :
                 log[i].msg = "Making request"
                    => /\ log[i].data # {}
                       /\ \A d \in log[i].data :
                            /\ ~Mentions(d, password)
                            /\ d.vals["settings"].vals["password"] = JStr("*****")

(* C24: every attempt of a call sends the same method, URL, headers,      *)
(* query parameters and body as the first attempt; the body sent is the    *)
(* caller's body and not the masked copy that is logged; and the caller's  *)
(* body and parameters are as the caller passed them.                      *)
C24_SameRequestEveryAttempt ==
    /\ call # NoCall => call \in callers
    /\ \A i \in 1..Len(sent) :
         /\ sent[i].method = sent[1].method
         /\ sent[i].url = sent[1].url
         /\ sent[i].headers = sent[1].headers
         /\ sent[i].params = sent[1].params
         /\ sent[i].json = sent[1].json
         /\ sent[i].method = call.method
         /\ sent[i].params = call.params
         /\ sent[i].json = call.data

C24_Witness ==
    /\ session.logging_enabled
    /\ Len(sent) = 2
    /\ call.data = {CustomerData}
    /\ sent[2].json = {CustomerData}
    /\ sent[2] = sent[1]
    /\ log[1].data # call.data

\* The path of the call without one leading slash
Relative == IF Char(call.path, 1) = "/" THEN From(call.path, 2) ELSE call.path

\* Segments other than "." and ".." separated by single slashes, with or
\* without a slash at the end, and no colon
PlainPath(path) ==
    LET segments == Split(path)
    IN  /\ Find(path, ":") = 0
        /\ \A i \in 1..Len(segments) :
             /\ segments[i] \notin {".", ".."}
             /\ segments[i] = "" => i = Len(segments)

C25_WitnessLeavesBase ==
    /\ Len(sent) = 1
    /\ session.base_url = "http://localhost/api/v1"
    /\ call.path = "//customers"
    /\ sent[1].url = "http://localhost/customers"

\* The outcome of attempt i of the call
OutcomeOf(i) == ExecuteRequest(history[i], return_raw)

(* C30: a backoff delay is waited only between a retryable failure and the *)
(* next attempt of the call: nothing is waited before the first attempt,   *)
(* a terminal error or a success ends the call without a wait, the failure *)
(* of the last allowed attempt is raised without a further wait, and a     *)
(* call resolved after k attempts has waited exactly k-1 delays.           *)
C30_WaitsOnlyBetweenAttempts ==
    /\ Attempts = 0 => slept = <<>>
    /\ pc = "attempt" => Len(slept) = Attempts
    /\ pc = "sleep" => /\ Len(slept) = Attempts - 1
                       /\ RetryIfExceptionType(outcome)
                       /\ ~StopAfterAttempt(Attempts)
    /\ pc = "done" => Len(slept) = Attempts - 1
    /\ \A i \in 1..Len(slept) :
          /\ i <= Attempts
          /\ RetryIfExceptionType(OutcomeOf(i))
          /\ ~StopAfterAttempt(i)

C30_Witness ==
    /\ Failed
    /\ max_retries = 3
    /\ Attempts = 3
    /\ RetryIfExceptionType(outcome)
    /\ Len(slept) = 2

C30_WitnessTerminal ==
    /\ Failed
    /\ Attempts = 2
    /\ ~RetryIfExceptionType(outcome)
    /\ Len(slept) = 1

(* C29: when every attempt returns a response or fails, a call that was    *)
(* started resolves, returning a payload or raising an error, and it never *)
(* makes more than max(1, max_retries) attempts, also when max_retries is  *)
(* 0 or 1.                                                                 *)
C29_EveryCallResolves ==
    /\ (pc \in {"attempt", "sleep"}) ~> (pc = "done" /\ result.tag \in {"ok", "error"})
    /\ [][Attempts' <= Max(1, max_retries')]_vars

C29_Witness ==
    /\ Failed
    /\ max_retries = 0
    /\ Attempts = 1
    /\ RetryIfExceptionType(outcome)

C29_WitnessOneRetry ==
    /\ Succeeded
    /\ max_retries = 2
    /\ Attempts = 2
    /\ Len(slept) = 1

\* After attempt k with the given outcome the retry loop goes on to a wait
Continues(k, fut) == RetryIfExceptionType(fut) /\ ~StopAfterAttempt(k)

\* The retry state of a call is the one its own outcomes determine: it
\* starts at attempt 1, counts its own waits, has waited the delays of its
\* own attempts, and stopped at its first attempt that does not continue.
OwnRetryState(c) ==
    /\ c.pc = "idle" => c = NotStarted
    /\ c.pc # "idle" =>
          /\ c.attempt_number = Len(c.slept) + 1
          /\ Len(c.history) = c.attempt_number - (IF c.pc = "attempt" THEN 1 ELSE 0)
    /\ \A k \in 1..Len(c.slept) : c.slept[k] = WaitExponential(k)
    /\ \A k \in 1..Len(c.history) :
          LET fut == ExecuteRequest(c.history[k], FALSE)
          IN  IF k = Len(c.history) /\ c.pc = "done"
              THEN /\ ~Continues(k, fut)
                   /\ c.result = IF RetryIfExceptionType(fut) THEN Reraise(fut)
                                  ELSE FutureResult(fut)
              ELSE Continues(k, fut)

(* C23: retry state is private to each call.  Under every interleaving of  *)
(* concurrent calls on one client each call starts at attempt 1 and its    *)
(* attempts and backoff delays are those its own outcomes determine; a     *)
(* step of one call changes the state of no other call; a call that is     *)
(* ready to send, or to end its wait, can do so whatever the other calls   *)
(* are doing; and no step changes the base URL, the token or the retry     *)
(* settings.                                                               *)
C23_RetryStatePrivate ==
    /\ [](\A i \in Calls :
            /\ OwnRetryState(inflight[i])
            /\ inflight[i].pc = "attempt" => ENABLED AttemptOf(i)
            /\ inflight[i].pc = "sleep" => ENABLED SleepOf(i))
    /\ [][/\ \A i, j \in Calls :
               (i # j /\ inflight'[i] # inflight[i]) => inflight'[j] = inflight[j]
           /\ session' = session
           /\ max_retries' = max_retries
           /\ retry_delay' = retry_delay]_vars

\* One call fails twice and gives up, while the other, started later,
\* resolves after one attempt, sent while the first call was waiting.
C23_Witness ==
    /\ max_retries = 2
    /\ inflight[1].pc = "done"
    /\ inflight[1].result.tag = "error"
    /\ Len(inflight[1].history) = 2
    /\ inflight[1].slept = <<WaitExponential(1)>>
    /\ inflight[2].pc = "done"
    /\ Len(inflight[2].history) = 1
    /\ inflight[2].result.tag = "ok"
    /\ Len(sent) = 3
    /\ sent[1] = sent[3]
    /\ sent[2] # sent[1]

\* Both calls exhaust their attempts, each with its own delays.
C23_WitnessBothExhausted ==
    /\ max_retries = 2
    /\ retry_delay = 2
    /\ \A i \in Calls :
          /\ inflight[i].pc = "done"
          /\ Len(inflight[i].history) = 2
          /\ inflight[i].slept = <<2>>
          /\ inflight[i].result.tag = "error"

=============================================================================
